---- MODULE Spec2Model ----
(***************************************************************************)
(* A model of the response flatteners of team_AI/utils/flattened_data.py:  *)
(* flatten_identity_data_to_list_of_dicts and                              *)
(* flatten_plaid_transactions_data.                                        *)
(*                                                                         *)
(* JSON values are tagged records.  A mapping keeps its items as a         *)
(* sequence of <<key, value>> pairs in insertion order, as a Python dict   *)
(* does, so that iteration order, item assignment and serialisation are    *)
(* those of the code.                                                      *)
(***************************************************************************)
EXTENDS Integers, Sequences, FiniteSets, TLC

VARIABLES
    pc,                     \* position of the running call
    all_raw_responses,      \* input of the identity flattener
    response_index,         \* 0-based index of the response loop (line 39)
    account_index,          \* 0-based position in the account loop (line 56)
    owner_index,            \* 0-based index of the owner loop (line 102)
    flat_identity_records,  \* the identity flattener's output list
    full_data,              \* input of the transaction flattener
    account_lookup,         \* its account_id -> account lookup (line 239)
    tx_index,               \* 0-based position in the transaction loop (line 245)
    flat_list,              \* the transaction flattener's output list
    call_no,                \* 1 in the first call on the input, 2 in a repeated call
    first_result,           \* what the first call returned, once it is repeated
    script,                 \* the workflow script that runs
    config,                 \* its configuration, credentials and seed list
    institution_index,      \* 0-based position in the institution loop
    events,                 \* the calls and waits of the run, in order
    all_responses_data_list,       \* accumulator of get_identity.py, get_item.py
    all_accounts_accumulator,      \* accumulators of the transaction scripts
    all_transactions_accumulator,
    all_item_objects_accumulator,
    exit_status,            \* status the process ended with
    uncaught                \* exception that ended it, "" for none

identityVars == <<all_raw_responses, response_index, account_index, owner_index,
                  flat_identity_records>>
txVars == <<full_data, account_lookup, tx_index, flat_list>>
callVars == <<call_no, first_result>>
\* what a step of the identity flattener, or of the transaction flattener,
\* cannot touch
accumulatorVars == <<all_responses_data_list, all_accounts_accumulator,
                     all_transactions_accumulator, all_item_objects_accumulator>>
wfVars == <<script, config, institution_index, events, exit_status, uncaught,
            accumulatorVars>>
flattenerVars == <<identityVars, txVars, callVars>>
notIdentityVars == <<txVars, callVars, wfVars>>
notTxVars == <<identityVars, callVars, wfVars>>
vars == <<pc, identityVars, txVars, callVars, wfVars>>

---------------------------------------------------------------------------
(* Bounds of the model *)
MaxResponses == 3
MaxAccounts == 3
MaxOwners == 3
MaxContacts == 3
MaxTransactions == 2
MaxInstitutions == 2

---------------------------------------------------------------------------
(* JSON values and the dict operations the code uses *)
JNull == [t |-> "null"]
JBool(b) == [t |-> "bool", v |-> b]
JStr(s) == [t |-> "str", v |-> s]
JNum(n) == [t |-> "num", v |-> n]
JList(s) == [t |-> "list", v |-> s]
JDict(items) == [t |-> "dict", v |-> items]
KV(k, val) == <<k, val>>
EmptyDict == JDict(<<>>)
EmptyList == JList(<<>>)

IsDict(x) == x.t = "dict"
IsList(x) == x.t = "list"
IsScalar(x) == ~IsDict(x) /\ ~IsList(x)

\* Python truth value: None, False, 0, "", [] and {} are falsy.
Truthy(x) ==
    CASE x.t = "null" -> FALSE
      [] x.t = "bool" -> x.v
      [] x.t = "str"  -> x.v # ""
      [] x.t = "num"  -> x.v # 0
      [] OTHER        -> Len(x.v) > 0

Keys(d) == {d.v[i][1] : i \in 1..Len(d.v)}
HasKey(d, k) == k \in Keys(d)

\* d.get(k, default)
GetOr(d, k, default) ==
    IF HasKey(d, k)
    THEN d.v[CHOOSE i \in 1..Len(d.v) : d.v[i][1] = k][2]
    ELSE default

\* d.get(k)
Get(d, k) == GetOr(d, k, JNull)

\* d[k] = val
SetItem(d, k, val) ==
    IF HasKey(d, k)
    THEN JDict([i \in 1..Len(d.v) |-> IF d.v[i][1] = k THEN KV(k, val) ELSE d.v[i]])
    ELSE JDict(Append(d.v, KV(k, val)))

---------------------------------------------------------------------------
(* A flattener called on its own, and a script before its flattener runs *)
NotExited == -1

\* What a run is started with: the loaded configuration, the credentials of
\* the environment, and the seed file with the ids read from it.
GoodConfig(seed) ==
    [cfgs |-> TRUE, CLIENT_ID |-> TRUE, SECRET |-> TRUE, DATA_DIR |-> TRUE,
     seed_file |-> TRUE, seed |-> seed]

\* no script runs
NoWorkflow ==
    /\ script = "none"
    /\ config = GoodConfig(<<>>)
    /\ institution_index = 0
    /\ events = <<>>
    /\ all_responses_data_list = <<>>
    /\ all_accounts_accumulator = <<>>
    /\ all_transactions_accumulator = <<>>
    /\ all_item_objects_accumulator = <<>>
    /\ exit_status = NotExited
    /\ uncaught = ""

\* no flattener has been called
NoFlattenerCall ==
    /\ all_raw_responses = <<>>
    /\ response_index = 0
    /\ account_index = 0
    /\ owner_index = 0
    /\ flat_identity_records = <<>>
    /\ full_data = EmptyDict
    /\ account_lookup = <<>>
    /\ tx_index = 0
    /\ flat_list = <<>>
    /\ call_no = 1
    /\ first_result = <<>>

---------------------------------------------------------------------------
(* flatten_identity_data_to_list_of_dicts: the records *)

\* lines 48: request_id, with its index-dependent default
RequestId(raw_response, idx) ==
    GetOr(raw_response, "request_id", JStr("N/A_resp_idx_" \o ToString(idx)))

\* BaseRecord with account_id read from the account's name
BaseRecord_NameAsId(request_id, item_info, account) ==
    JDict(<<
        KV("request_id_source", request_id),
        KV("item_id", Get(item_info, "item_id")),
        KV("item_institution_id", Get(item_info, "institution_id")),
        KV("item_institution_name", Get(item_info, "institution_name")),
        KV("account_id", Get(account, "name")),
        KV("account_name", Get(account, "name")),
        KV("account_official_name", Get(account, "official_name")),
        KV("account_type", Get(account, "type")),
        KV("account_subtype", Get(account, "subtype")),
        KV("account_mask", Get(account, "mask")),
        KV("account_balance_available",
           Get(GetOr(account, "balances", EmptyDict), "available")),
        KV("account_balance_current",
           Get(GetOr(account, "balances", EmptyDict), "current")),
        KV("account_balance_currency",
           Get(GetOr(account, "balances", EmptyDict), "iso_currency_code"))
    >>)

\* lines 110-134: the account-level part of an owner's record
BaseRecord(request_id, item_info, account) ==
    JDict(<<
        KV("request_id_source", request_id),
        KV("item_id", Get(item_info, "item_id")),
        KV("item_institution_id", Get(item_info, "institution_id")),
        KV("item_institution_name", Get(item_info, "institution_name")),
        KV("account_id", Get(account, "account_id")),
        KV("account_name", Get(account, "name")),
        KV("account_official_name", Get(account, "official_name")),
        KV("account_type", Get(account, "type")),
        KV("account_subtype", Get(account, "subtype")),
        KV("account_mask", Get(account, "mask")),
        KV("account_balance_available",
           Get(GetOr(account, "balances", EmptyDict), "available")),
        KV("account_balance_current",
           Get(GetOr(account, "balances", EmptyDict), "current")),
        KV("account_balance_currency",
           Get(GetOr(account, "balances", EmptyDict), "iso_currency_code"))
    >>)

\* lines 66-98: the record of an account that lists no owners
NoOwnerRecord(request_id, item_info, account) ==
    JDict(BaseRecord(request_id, item_info, account).v \o <<
        KV("owner_name", JNull),
        KV("owner_address_street", JNull),
        KV("owner_address_city", JNull),
        KV("owner_address_postal_code", JNull),
        KV("owner_address_country", JNull),
        KV("owner_address_primary", JNull),
        KV("owner_email_data", JNull),
        KV("owner_email_primary", JNull),
        KV("owner_email_type", JNull),
        KV("owner_phone_data", JNull),
        KV("owner_phone_primary", JNull),
        KV("owner_phone_type", JNull)
    >>)

\* lines 143-150: the address loop; st holds primary_address and
\* first_address_data, both None before the loop
RECURSIVE ScanAddresses(_, _, _)
ScanAddresses(addrs, i, st) ==
    IF i > Len(addrs) THEN st
    ELSE LET addr == addrs[i] IN
         IF Truthy(Get(addr, "primary"))
         THEN [st EXCEPT !.primary_address = GetOr(addr, "data", EmptyDict)]
         ELSE ScanAddresses(addrs, i + 1,
                  IF ~Truthy(st.first_address_data)
                  THEN [st EXCEPT !.first_address_data = GetOr(addr, "data", EmptyDict)]
                  ELSE st)

\* WithAddress with owner_address_primary false, not None, when there is no
\* address at all
WithAddress_FalseWhenNone(rec, owner) ==
    LET st == ScanAddresses(GetOr(owner, "addresses", EmptyList).v, 1,
                  [primary_address |-> JNull, first_address_data |-> JNull])
        chosen_address ==
            IF Truthy(st.primary_address) THEN st.primary_address
            ELSE IF Truthy(st.first_address_data) THEN st.first_address_data
            ELSE EmptyDict
        r1 == SetItem(rec, "owner_address_street", Get(chosen_address, "street"))
        r2 == SetItem(r1, "owner_address_city", Get(chosen_address, "city"))
        r3 == SetItem(r2, "owner_address_region", Get(chosen_address, "region"))
        r4 == SetItem(r3, "owner_address_postal_code", Get(chosen_address, "postal_code"))
        r5 == SetItem(r4, "owner_address_country", Get(chosen_address, "country"))
    IN  SetItem(r5, "owner_address_primary", JBool(Truthy(st.primary_address)))

\* lines 143-166: the owner_address_* fields
WithAddress(rec, owner) ==
    LET st == ScanAddresses(GetOr(owner, "addresses", EmptyList).v, 1,
                  [primary_address |-> JNull, first_address_data |-> JNull])
        primary_address == st.primary_address
        first_address_data == st.first_address_data
        chosen_address ==
            IF Truthy(primary_address) THEN primary_address
            ELSE IF Truthy(first_address_data) THEN first_address_data
            ELSE EmptyDict
        r1 == SetItem(rec, "owner_address_street", Get(chosen_address, "street"))
        r2 == SetItem(r1, "owner_address_city", Get(chosen_address, "city"))
        r3 == SetItem(r2, "owner_address_region", Get(chosen_address, "region"))
        r4 == SetItem(r3, "owner_address_postal_code", Get(chosen_address, "postal_code"))
        r5 == SetItem(r4, "owner_address_country", Get(chosen_address, "country"))
    IN  SetItem(r5, "owner_address_primary",
            IF Truthy(primary_address) THEN JBool(TRUE)
            ELSE IF Truthy(first_address_data) THEN JBool(FALSE)
            ELSE JNull)

\* lines 169-176: the email loop
RECURSIVE ScanEmails(_, _, _)
ScanEmails(emails, i, st) ==
    IF i > Len(emails) THEN st
    ELSE LET email_obj == emails[i] IN
         IF Truthy(Get(email_obj, "primary"))
         THEN [st EXCEPT !.primary_email = email_obj]
         ELSE ScanEmails(emails, i + 1,
                  IF ~Truthy(st.first_email_data)
                  THEN [st EXCEPT !.first_email_data = email_obj]
                  ELSE st)

\* lines 168-185: the owner_email_* fields
WithEmail(rec, owner) ==
    LET st == ScanEmails(GetOr(owner, "emails", EmptyList).v, 1,
                  [primary_email |-> JNull, first_email_data |-> JNull])
        chosen_email ==
            IF Truthy(st.primary_email) THEN st.primary_email
            ELSE IF Truthy(st.first_email_data) THEN st.first_email_data
            ELSE EmptyDict
        r1 == SetItem(rec, "owner_email_data", Get(chosen_email, "data"))
        r2 == SetItem(r1, "owner_email_primary", Get(chosen_email, "primary"))
    IN  SetItem(r2, "owner_email_type", Get(chosen_email, "type"))

\* lines 188-198: the phone loop
RECURSIVE ScanPhones(_, _, _)
ScanPhones(phones, i, st) ==
    IF i > Len(phones) THEN st
    ELSE LET phone_obj == phones[i] IN
         IF Truthy(Get(phone_obj, "primary"))
         THEN [st EXCEPT !.primary_phone = phone_obj]
         ELSE LET s1 == IF ~Truthy(st.first_mobile_phone)
                           /\ Get(phone_obj, "type") = JStr("mobile")
                        THEN [st EXCEPT !.first_mobile_phone = phone_obj]
                        ELSE st
                  s2 == IF ~Truthy(s1.first_any_phone)
                        THEN [s1 EXCEPT !.first_any_phone = phone_obj]
                        ELSE s1
              IN  ScanPhones(phones, i + 1, s2)

\* lines 187-211: the owner_phone_* fields
WithPhone(rec, owner) ==
    LET st == ScanPhones(GetOr(owner, "phone_numbers", EmptyList).v, 1,
                  [primary_phone |-> JNull, first_mobile_phone |-> JNull,
                   first_any_phone |-> JNull])
        chosen_phone ==
            IF Truthy(st.primary_phone) THEN st.primary_phone
            ELSE IF Truthy(st.first_mobile_phone) THEN st.first_mobile_phone
            ELSE IF Truthy(st.first_any_phone) THEN st.first_any_phone
            ELSE EmptyDict
        r1 == SetItem(rec, "owner_phone_data", Get(chosen_phone, "data"))
        r2 == SetItem(r1, "owner_phone_primary", Get(chosen_phone, "primary"))
    IN  SetItem(r2, "owner_phone_type", Get(chosen_phone, "type"))

\* lines 137-140: owner_name is the first of the owner's names
WithName(rec, owner) ==
    LET owner_names == GetOr(owner, "names", EmptyList)
    IN  SetItem(rec, "owner_name",
            IF Truthy(owner_names) THEN owner_names.v[1] ELSE JNull)

\* lines 110-211: the record of one owner of an account
OwnerRecord(request_id, item_info, account, owner) ==
    WithPhone(WithEmail(WithAddress(WithName(
        BaseRecord(request_id, item_info, account), owner), owner), owner), owner)

---------------------------------------------------------------------------
(* Where building a record raises.  x.get(...) raises AttributeError when x *)
(* is not a dict, a for loop raises TypeError over None, a number or a      *)
(* boolean; neither flattener has a try block.                              *)

\* lines 68-85, 112-132: item_info.get and account.get("balances", {}).get
BaseRecordRaises(item_info, account) ==
    IF IsDict(item_info) THEN ~IsDict(GetOr(account, "balances", EmptyDict))
    ELSE TRUE

\* lines 137-139: owner_names[0] of a truthy value that cannot be indexed by 0
NamesRaise(owner) ==
    LET owner_names == GetOr(owner, "names", EmptyList)
    IN  Truthy(owner_names) /\ owner_names.t \in {"dict", "num", "bool"}

\* lines 145-146, 171-172, 191-192: entry.get("primary") on the entries the
\* loop visits, which are those up to the first one flagged primary
RECURSIVE ScanRaises(_, _)
ScanRaises(entries, i) ==
    IF i > Len(entries) THEN FALSE
    ELSE IF ~IsDict(entries[i]) THEN TRUE
    ELSE IF Truthy(Get(entries[i], "primary")) THEN FALSE
    ELSE ScanRaises(entries, i + 1)

\* the loop over owner.get(k, []): a list is scanned; None, a number or a
\* boolean cannot be iterated; a non-empty string or dict yields strings
ContactsRaise(owner, k) ==
    LET entries == GetOr(owner, k, EmptyList)
    IN  IF IsList(entries) THEN ScanRaises(entries.v, 1)
        ELSE IF entries.t \in {"null", "num", "bool"} THEN TRUE
        ELSE Truthy(entries)

\* lines 152-163: chosen_address.get on the data that was chosen, once the
\* address loop is through
AddressDataRaises(owner) ==
    LET st == ScanAddresses(GetOr(owner, "addresses", EmptyList).v, 1,
                  [primary_address |-> JNull, first_address_data |-> JNull])
    IN  IF Truthy(st.primary_address) THEN ~IsDict(st.primary_address)
        ELSE Truthy(st.first_address_data) /\ ~IsDict(st.first_address_data)

\* lines 110-211: building the record of an owner raises
OwnerRecordRaises(item_info, account, owner) ==
    IF BaseRecordRaises(item_info, account) THEN TRUE
    ELSE IF NamesRaise(owner) THEN TRUE
    ELSE IF ContactsRaise(owner, "addresses") THEN TRUE
    ELSE IF AddressDataRaises(owner) THEN TRUE
    ELSE IF ContactsRaise(owner, "emails") THEN TRUE
    ELSE ContactsRaise(owner, "phone_numbers")

---------------------------------------------------------------------------
(* flatten_identity_data_to_list_of_dicts: the loops *)

\* the objects the three nested loops currently stand on
CurResponse == all_raw_responses[response_index + 1]
CurItemInfo == GetOr(CurResponse, "item", EmptyDict)
CurAccounts == GetOr(CurResponse, "accounts", EmptyList)
CurRequestId == RequestId(CurResponse, response_index)
CurAccount == CurAccounts.v[account_index + 1]
CurOwners == GetOr(CurAccount, "owners", EmptyList)
CurOwner == CurOwners.v[owner_index + 1]

InResponseLoop == pc = "responses" /\ response_index < Len(all_raw_responses)
InAccountLoop == pc = "accounts" /\ account_index < Len(CurAccounts.v)
InOwnerLoop == pc = "owners" /\ owner_index < Len(CurOwners.v)

\* lines 40-44: a response that is not a dictionary is skipped
SkipNonDictResponse ==
    /\ InResponseLoop
    /\ ~IsDict(CurResponse)
    /\ response_index' = response_index + 1
    /\ UNCHANGED <<pc, all_raw_responses, account_index, owner_index,
                   flat_identity_records>>
    /\ UNCHANGED notIdentityVars

\* lines 46-54: a response without accounts is skipped
SkipNoAccounts ==
    /\ InResponseLoop
    /\ IsDict(CurResponse)
    /\ ~Truthy(CurAccounts)
    /\ response_index' = response_index + 1
    /\ UNCHANGED <<pc, all_raw_responses, account_index, owner_index,
                   flat_identity_records>>
    /\ UNCHANGED notIdentityVars

\* lines 46-56: the account loop of a response starts
EnterAccounts ==
    /\ InResponseLoop
    /\ IsDict(CurResponse)
    /\ Truthy(CurAccounts)
    /\ pc' = "accounts"
    /\ account_index' = 0
    /\ UNCHANGED <<all_raw_responses, response_index, owner_index,
                   flat_identity_records>>
    /\ UNCHANGED notIdentityVars

\* lines 57-61: an account that is not a dictionary is skipped
SkipNonDictAccount ==
    /\ InAccountLoop
    /\ ~IsDict(CurAccount)
    /\ account_index' = account_index + 1
    /\ UNCHANGED <<pc, all_raw_responses, response_index, owner_index,
                   flat_identity_records>>
    /\ UNCHANGED notIdentityVars

\* EmitNoOwnerRecord that goes on to the next account without a record
EmitNoOwnerRecord_Dropped ==
    /\ InAccountLoop
    /\ IsDict(CurAccount)
    /\ ~Truthy(CurOwners)
    /\ account_index' = account_index + 1
    /\ UNCHANGED <<pc, all_raw_responses, response_index, owner_index,
                   flat_identity_records>>
    /\ UNCHANGED notIdentityVars

\* Emit that puts the record before those already emitted
Emit_AtFront(records, record) == <<record>> \o records

\* lines 99 and 213: flat_identity_records.append(base_record)
Emit(records, record) == Append(records, record)

\* lines 63-100: an account without owners gives one record
EmitNoOwnerRecord ==
    /\ InAccountLoop
    /\ IsDict(CurAccount)
    /\ ~Truthy(CurOwners)
    /\ ~BaseRecordRaises(CurItemInfo, CurAccount)
    /\ flat_identity_records' =
           Emit(flat_identity_records,
                NoOwnerRecord(CurRequestId, CurItemInfo, CurAccount))
    /\ account_index' = account_index + 1
    /\ UNCHANGED <<pc, all_raw_responses, response_index, owner_index>>
    /\ UNCHANGED notIdentityVars

\* lines 63-102: the owner loop of an account starts
EnterOwners ==
    /\ InAccountLoop
    /\ IsDict(CurAccount)
    /\ Truthy(CurOwners)
    /\ pc' = "owners"
    /\ owner_index' = 0
    /\ UNCHANGED <<all_raw_responses, response_index, account_index,
                   flat_identity_records>>
    /\ UNCHANGED notIdentityVars

\* lines 103-107: an owner that is not a dictionary is skipped
SkipNonDictOwner ==
    /\ InOwnerLoop
    /\ ~IsDict(CurOwner)
    /\ owner_index' = owner_index + 1
    /\ UNCHANGED <<pc, all_raw_responses, response_index, account_index,
                   flat_identity_records>>
    /\ UNCHANGED notIdentityVars

\* lines 109-213: an owner gives one record
EmitOwnerRecord ==
    /\ InOwnerLoop
    /\ IsDict(CurOwner)
    /\ ~OwnerRecordRaises(CurItemInfo, CurAccount, CurOwner)
    /\ flat_identity_records' =
           Emit(flat_identity_records,
                OwnerRecord(CurRequestId, CurItemInfo, CurAccount, CurOwner))
    /\ owner_index' = owner_index + 1
    /\ UNCHANGED <<pc, all_raw_responses, response_index, account_index>>
    /\ UNCHANGED notIdentityVars

\* lines 66-98: building the record of an account without owners raises;
\* the exception leaves the function, the records built so far are lost to
\* the caller
RaiseInNoOwnerRecord ==
    /\ InAccountLoop
    /\ IsDict(CurAccount)
    /\ ~Truthy(CurOwners)
    /\ BaseRecordRaises(CurItemInfo, CurAccount)
    /\ pc' = "raised"
    /\ UNCHANGED identityVars
    /\ UNCHANGED notIdentityVars

\* lines 110-211: building the record of an owner raises
RaiseInOwnerRecord ==
    /\ InOwnerLoop
    /\ IsDict(CurOwner)
    /\ OwnerRecordRaises(CurItemInfo, CurAccount, CurOwner)
    /\ pc' = "raised"
    /\ UNCHANGED identityVars
    /\ UNCHANGED notIdentityVars

\* line 102: the owner loop is exhausted, the account loop goes on
ExitOwners ==
    /\ pc = "owners"
    /\ owner_index >= Len(CurOwners.v)
    /\ pc' = "accounts"
    /\ account_index' = account_index + 1
    /\ UNCHANGED <<all_raw_responses, response_index, owner_index,
                   flat_identity_records>>
    /\ UNCHANGED notIdentityVars

\* line 56: the account loop is exhausted, the response loop goes on
ExitAccounts ==
    /\ pc = "accounts"
    /\ account_index >= Len(CurAccounts.v)
    /\ pc' = "responses"
    /\ response_index' = response_index + 1
    /\ UNCHANGED <<all_raw_responses, account_index, owner_index,
                   flat_identity_records>>
    /\ UNCHANGED notIdentityVars

\* lines 215-218: the response loop is exhausted, the list is returned
ReturnIdentity ==
    /\ pc = "responses"
    /\ response_index >= Len(all_raw_responses)
    /\ pc' = "done"
    /\ UNCHANGED <<all_raw_responses, response_index, account_index, owner_index,
                   flat_identity_records>>
    /\ UNCHANGED notIdentityVars

NextIdentity ==
    \/ SkipNonDictResponse
    \/ SkipNoAccounts
    \/ EnterAccounts
    \/ SkipNonDictAccount
    \/ EmitNoOwnerRecord
    \/ EnterOwners
    \/ SkipNonDictOwner
    \/ EmitOwnerRecord
    \/ ExitOwners
    \/ ExitAccounts
    \/ ReturnIdentity

---------------------------------------------------------------------------
(* The identity responses the calls are made with *)

\* all sequences over S of length at most n
SeqsUpTo(S, n) == UNION {[1..k -> S] : k \in 0..n}

\* an optional key: Absent stands for a key the mapping does not have
Absent == [t |-> "absent"]
Opt(k, val) == IF val = Absent THEN <<>> ELSE <<KV(k, val)>>

NotADict == JStr("not a mapping")

Item1 ==
    JDict(<<KV("item_id", JStr("item_1")), KV("institution_id", JStr("ins_1")),
            KV("institution_name", JStr("Bank One"))>>)
Item2 ==
    JDict(<<KV("item_id", JStr("item_2")), KV("institution_id", JStr("ins_2")),
            KV("institution_name", JStr("Bank Two"))>>)

Balances1 ==
    JDict(<<KV("available", JNum(90)), KV("current", JNum(100)),
            KV("iso_currency_code", JStr("USD"))>>)

\* an account; owners is a JSON list of owners, or Absent
AccountOf(id, owners) ==
    JDict(<<KV("account_id", JStr(id)), KV("name", JStr("Checking")),
            KV("type", JStr("depository")), KV("balances", Balances1)>>
          \o Opt("owners", owners))

\* a response; item, request_id and the accounts list may each be Absent
ResponseOf(item, request_id, accounts) ==
    JDict(Opt("accounts", accounts) \o Opt("item", item)
          \o Opt("request_id", request_id))

AddrAustin == JDict(<<KV("city", JStr("Austin"))>>)
AddrBoston ==
    JDict(<<KV("street", JStr("1 Main St")), KV("city", JStr("Boston")),
            KV("region", JStr("MA")), KV("postal_code", JStr("02101")),
            KV("country", JStr("US"))>>)

\* the owner of the documented example
OwnerAlice ==
    JDict(<<KV("names", JList(<<JStr("Alice Smith")>>)),
            KV("addresses", JList(<<JDict(<<KV("primary", JBool(TRUE)),
                                            KV("data", AddrAustin)>>)>>)),
            KV("emails", EmptyList),
            KV("phone_numbers", JList(<<JDict(<<KV("primary", JBool(FALSE)),
                                                KV("type", JStr("mobile")),
                                                KV("data", JStr("555-1234"))>>)>>))>>)
\* an owner with a name and no contact keys at all
OwnerBob == JDict(<<KV("names", JList(<<JStr("Bob Jones")>>))>>)

\* an owner who has only the given contact list under key k
OwnerWith(k, entries) ==
    JDict(<<KV("names", JList(<<JStr("Carol Diaz")>>)), KV(k, JList(entries))>>)

PrimaryFlags == {Absent, JBool(TRUE), JBool(FALSE)}

AddressEntries ==
    {JDict(Opt("data", d) \o Opt("primary", p)) :
        d \in {Absent, EmptyDict, AddrAustin, AddrBoston}, p \in PrimaryFlags}

EmailEntries ==
    {EmptyDict, JDict(<<KV("data", JStr("c@x.org"))>>)}
    \cup {JDict(<<KV("data", JStr(e[1])), KV("primary", JBool(p)),
                  KV("type", JStr(e[2]))>>) :
            e \in {<<"a@x.org", "primary">>, <<"b@x.org", "secondary">>},
            p \in BOOLEAN}

PhoneEntries ==
    {EmptyDict, JDict(<<KV("data", JStr("555-0000"))>>)}
    \cup {JDict(<<KV("data", JStr(d)), KV("primary", JBool(p)),
                  KV("type", JStr(ty))>>) :
            d \in {"555-1234", "555-9999"}, p \in BOOLEAN, ty \in {"mobile", "home"}}

OwnerKinds == {NotADict, OwnerAlice, OwnerBob}

AccountKinds ==
    {NotADict, AccountOf("acc_1", Absent), AccountOf("acc_2", EmptyList),
     AccountOf("acc_3", JList(<<OwnerAlice>>)), AccountOf("acc_4", JList(<<NotADict, OwnerBob>>))}

ResponseKinds ==
    {NotADict,
     ResponseOf(Item1, JStr("req_1"), Absent),
     ResponseOf(Item1, JStr("req_2"), EmptyList),
     ResponseOf(Item1, JStr("req_3"), JList(<<AccountOf("acc_1", EmptyList)>>)),
     ResponseOf(Item2, Absent,
                JList(<<AccountOf("acc_2", JList(<<OwnerAlice, OwnerBob>>)),
                        NotADict, AccountOf("acc_3", Absent)>>)),
     ResponseOf(Absent, JStr("req_5"),
                JList(<<AccountOf("acc_4", JList(<<OwnerBob>>))>>))}

\* one response, one account, one owner
SingleOwnerBatch(owner) ==
    <<ResponseOf(Item1, JStr("req_1"),
                 JList(<<AccountOf("acc_1", JList(<<owner>>))>>))>>

ResponseBatches == SeqsUpTo(ResponseKinds, MaxResponses)
AccountBatches ==
    {<<ResponseOf(item, JStr("req_1"), JList(accounts))>> :
        item \in {Absent, Item1}, accounts \in SeqsUpTo(AccountKinds, MaxAccounts)}
OwnerBatches ==
    {<<ResponseOf(Item2, JStr("req_1"),
                  JList(<<AccountOf("acc_1", JList(owners))>>))>> :
        owners \in SeqsUpTo(OwnerKinds, MaxOwners)}
AddressBatches ==
    {SingleOwnerBatch(OwnerWith("addresses", l)) :
        l \in SeqsUpTo(AddressEntries, MaxContacts)}
EmailBatches ==
    {SingleOwnerBatch(OwnerWith("emails", l)) :
        l \in SeqsUpTo(EmailEntries, MaxContacts)}
PhoneBatches ==
    {SingleOwnerBatch(OwnerWith("phone_numbers", l)) :
        l \in SeqsUpTo(PhoneEntries, MaxContacts)}

IdentityInputs ==
    ResponseBatches \cup AccountBatches \cup OwnerBatches
    \cup AddressBatches \cup EmailBatches \cup PhoneBatches

\* lines 15-37: the function is entered with one of the given inputs
IdentityCallOn(inputs) ==
    /\ all_raw_responses \in inputs
    /\ pc = "responses"
    /\ response_index = 0
    /\ account_index = 0
    /\ owner_index = 0
    /\ flat_identity_records = <<>>
    /\ full_data = EmptyDict
    /\ account_lookup = <<>>
    /\ tx_index = 0
    /\ flat_list = <<>>
    /\ call_no = 1
    /\ first_result = <<>>
    /\ NoWorkflow

InitIdentity == IdentityCallOn(IdentityInputs)

SpecIdentity == InitIdentity /\ [][NextIdentity]_vars

---------------------------------------------------------------------------
(* flatten_plaid_transactions_data: the row of one transaction *)

\* json.dumps(obj), with its default separators
RECURSIVE JsonDumps(_)
RECURSIVE JsonJoin(_, _, _)
JsonJoin(parts, i, isDict) ==
    IF i > Len(parts) THEN ""
    ELSE (IF i > 1 THEN ", " ELSE "")
         \o (IF isDict
             THEN "\"" \o parts[i][1] \o "\": " \o JsonDumps(parts[i][2])
             ELSE JsonDumps(parts[i]))
         \o JsonJoin(parts, i + 1, isDict)
JsonDumps(x) ==
    CASE x.t = "null" -> "null"
      [] x.t = "bool" -> (IF x.v THEN "true" ELSE "false")
      [] x.t = "num"  -> ToString(x.v)
      [] x.t = "str"  -> "\"" \o x.v \o "\""
      [] x.t = "list" -> "[" \o JsonJoin(x.v, 1, FALSE) \o "]"
      [] OTHER        -> "{" \o JsonJoin(x.v, 1, TRUE) \o "}"

\* lines 239-241: the lookup is a dict keyed by acc["account_id"]; a later
\* account with the same id replaces the value and keeps the key's place
LookupHas(lookup, key) == \E i \in 1..Len(lookup) : lookup[i][1] = key
LookupGet(lookup, key) ==
    lookup[CHOOSE i \in 1..Len(lookup) : lookup[i][1] = key][2]
\* LookupSet for a lookup in which the first account of an id stays
LookupSet_KeepFirst(lookup, key, acc) ==
    IF LookupHas(lookup, key) THEN lookup ELSE Append(lookup, <<key, acc>>)

LookupSet(lookup, key, acc) ==
    IF LookupHas(lookup, key)
    THEN [i \in 1..Len(lookup) |->
             IF lookup[i][1] = key THEN <<key, acc>> ELSE lookup[i]]
    ELSE Append(lookup, <<key, acc>>)

RECURSIVE AccountLookup(_, _, _)
AccountLookup(accounts_list, i, lookup) ==
    IF i > Len(accounts_list) THEN lookup
    ELSE AccountLookup(accounts_list, i + 1,
             LookupSet(lookup, Get(accounts_list[i], "account_id"), accounts_list[i]))

\* lines 253-257: the sub-keys of a nested field
RECURSIVE SubFields(_, _, _, _)
SubFields(row, key, sub, j) ==
    IF j > Len(sub) THEN row
    ELSE LET sub_key == sub[j][1]
             sub_value == sub[j][2]
         IN  SubFields(
                 SetItem(row, "tx_" \o key \o "_" \o sub_key,
                         IF IsDict(sub_value) \/ IsList(sub_value)
                         THEN JStr(JsonDumps(sub_value))
                         ELSE sub_value),
                 key, sub, j + 1)

\* ListField that stores the whole list as its JSON text (line 260)
ListField_Serialized(row, key, value) ==
    SetItem(row, "tx_" \o key, JStr(JsonDumps(value)))

\* ListField that stores the list object of the input itself
ListField_Shared(row, key, value) == SetItem(row, "tx_" \o key, value)

\* lines 258-265: a field of the transaction whose value is a list
ListField(row, key, value) ==
    IF key = "counterparties" /\ Truthy(value)
    THEN SetItem(SetItem(row, "tx_" \o key \o "_0_name",
                         Get(value.v[1], "name")),
                 "tx_" \o key \o "_0_type", Get(value.v[1], "type"))
    ELSE row

\* lines 249-267: the transaction's own fields, in the order of tx.items()
RECURSIVE TxFields(_, _, _)
TxFields(row, tx, i) ==
    IF i > Len(tx.v) THEN row
    ELSE LET key == tx.v[i][1]
             value == tx.v[i][2]
         IN  TxFields(
                 IF IsDict(value) THEN SubFields(row, key, value.v, 1)
                 ELSE IF IsList(value) THEN ListField(row, key, value)
                 ELSE SetItem(row, "tx_" \o key, value),
                 tx, i + 1)

\* AccountFields that writes the acc_ columns as None when no account matches
AccountFields_NullWhenUnmatched(row, tx, lookup) ==
    LET account_id == Get(tx, "account_id")
        found == Truthy(account_id) /\ LookupHas(lookup, account_id)
        acc == IF found THEN LookupGet(lookup, account_id) ELSE EmptyDict
        balances == GetOr(acc, "balances", EmptyDict)
        r1 == SetItem(row, "acc_account_id", Get(acc, "account_id"))
        r2 == SetItem(r1, "acc_name", Get(acc, "name"))
        r3 == SetItem(r2, "acc_official_name", Get(acc, "official_name"))
        r4 == SetItem(r3, "acc_subtype", Get(acc, "subtype"))
        r5 == SetItem(r4, "acc_type", Get(acc, "type"))
        r6 == SetItem(r5, "acc_balance_available", Get(balances, "available"))
        r7 == SetItem(r6, "acc_balance_current", Get(balances, "current"))
        r8 == SetItem(r7, "acc_balance_iso_currency_code",
                      Get(balances, "iso_currency_code"))
        r9 == SetItem(r8, "acc_balance_limit", Get(balances, "limit"))
        r10 == SetItem(r9, "acc_balance_unofficial_currency_code",
                       Get(balances, "unofficial_currency_code"))
        r11 == SetItem(r10, "acc_holder_category", Get(acc, "holder_category"))
        r12 == SetItem(r11, "acc_mask", Get(acc, "mask"))
    IN  SetItem(r12, "acc_institution_id_source", Get(acc, "institution_id_source"))

\* lines 270-290: the fields of the account the transaction belongs to
AccountFields(row, tx, lookup) ==
    LET account_id == Get(tx, "account_id") IN
    IF Truthy(account_id) /\ LookupHas(lookup, account_id)
    THEN LET acc == LookupGet(lookup, account_id)
             balances == GetOr(acc, "balances", EmptyDict)
             r1 == SetItem(row, "acc_account_id", Get(acc, "account_id"))
             r2 == SetItem(r1, "acc_name", Get(acc, "name"))
             r3 == SetItem(r2, "acc_official_name", Get(acc, "official_name"))
             r4 == SetItem(r3, "acc_subtype", Get(acc, "subtype"))
             r5 == SetItem(r4, "acc_type", Get(acc, "type"))
             r6 == SetItem(r5, "acc_balance_available", Get(balances, "available"))
             r7 == SetItem(r6, "acc_balance_current", Get(balances, "current"))
             r8 == SetItem(r7, "acc_balance_iso_currency_code",
                           Get(balances, "iso_currency_code"))
             r9 == SetItem(r8, "acc_balance_limit", Get(balances, "limit"))
             r10 == SetItem(r9, "acc_balance_unofficial_currency_code",
                            Get(balances, "unofficial_currency_code"))
             r11 == SetItem(r10, "acc_holder_category", Get(acc, "holder_category"))
             r12 == SetItem(r11, "acc_mask", Get(acc, "mask"))
         IN  SetItem(r12, "acc_institution_id_source",
                     Get(acc, "institution_id_source"))
    ELSE row

\* ItemFields that attaches the item only to rows joined to an account
ItemFields_MatchedOnly(row, item_info) ==
    IF Truthy(item_info) /\ HasKey(row, "acc_account_id")
    THEN SetItem(
             SetItem(SetItem(row, "item_id", Get(item_info, "item_id")),
                     "item_institution_id", Get(item_info, "institution_id")),
             "item_webhook", Get(item_info, "webhook"))
    ELSE row

\* lines 298-301: the item's fields
ItemFields(row, item_info) ==
    IF Truthy(item_info)
    THEN SetItem(
             SetItem(SetItem(row, "item_id", Get(item_info, "item_id")),
                     "item_institution_id", Get(item_info, "institution_id")),
             "item_webhook", Get(item_info, "webhook"))
    ELSE row

\* SourceInstitution that prefers the item's institution to the transaction's tag
SourceInstitution_ItemFirst(row, item_info) ==
    IF ~HasKey(row, "institution_id_source")
       /\ Truthy(Get(item_info, "institution_id"))
    THEN SetItem(row, "institution_id_source", Get(item_info, "institution_id"))
    ELSE IF ~HasKey(row, "institution_id_source")
            /\ HasKey(row, "tx_institution_id_source")
    THEN SetItem(row, "institution_id_source", Get(row, "tx_institution_id_source"))
    ELSE row

\* lines 305-308: the source institution of the row
SourceInstitution(row, item_info) ==
    IF ~HasKey(row, "institution_id_source") /\ HasKey(row, "tx_institution_id_source")
    THEN SetItem(row, "institution_id_source", Get(row, "tx_institution_id_source"))
    ELSE IF ~HasKey(row, "institution_id_source")
            /\ Truthy(Get(item_info, "institution_id"))
    THEN SetItem(row, "institution_id_source", Get(item_info, "institution_id"))
    ELSE row

\* lines 246-308: the row of one transaction
TxRow(tx, lookup, item_info) ==
    SourceInstitution(
        ItemFields(AccountFields(TxFields(EmptyDict, tx, 1), tx, lookup), item_info),
        item_info)

\* a for loop over x, or len(x), raises TypeError
NotIterable(x) == x.t \in {"null", "num", "bool"}

\* lines 239-243: acc["account_id"] of an entry that is not a dict or has no
\* such key, or whose account_id cannot be a dict key; len(transactions_list)
\* of a value without a length
BuildLookupRaises ==
    LET accounts == GetOr(full_data, "accounts", EmptyList)
        transactions == GetOr(full_data, "transactions", EmptyList)
    IN  IF ~IsList(accounts)
        THEN (IF NotIterable(accounts) THEN TRUE ELSE Truthy(accounts))
        ELSE IF \E i \in 1..Len(accounts.v) :
                    IF IsDict(accounts.v[i])
                    THEN (IF HasKey(accounts.v[i], "account_id")
                          THEN ~IsScalar(Get(accounts.v[i], "account_id"))
                          ELSE TRUE)
                    ELSE TRUE
        THEN TRUE
        ELSE NotIterable(transactions)

\* lines 262-264: value[0].get of a first counterparty that is not a dict
TxFieldsRaises(tx) ==
    \E k \in Keys(tx) :
        /\ k = "counterparties"
        /\ IsList(Get(tx, k))
        /\ Truthy(Get(tx, k))
        /\ ~IsDict(Get(tx, k).v[1])

\* lines 270-282: an account_id that cannot be looked up, balances.get of
\* balances that are not a dict
AccountFieldsRaises(tx, lookup) ==
    LET account_id == Get(tx, "account_id") IN
    IF ~Truthy(account_id) THEN FALSE
    ELSE IF ~IsScalar(account_id) THEN TRUE
    ELSE IF LookupHas(lookup, account_id)
    THEN ~IsDict(GetOr(LookupGet(lookup, account_id), "balances", EmptyDict))
    ELSE FALSE

\* lines 298-299, 305-307: item_info.get of an item that is not a dict, in
\* the item block when the item is truthy, and at line 307 when no
\* tx_institution_id_source column stops line 305
ItemRaises(tx, item) ==
    IF IsDict(item) THEN FALSE
    ELSE IF Truthy(item) THEN TRUE
    ELSE ~HasKey(TxFields(EmptyDict, tx, 1), "tx_institution_id_source")

\* lines 245-308: building the row of a transaction raises
TxRowRaises(tx, lookup, item) ==
    IF ~IsDict(tx) THEN TRUE
    ELSE IF TxFieldsRaises(tx) THEN TRUE
    ELSE IF AccountFieldsRaises(tx, lookup) THEN TRUE
    ELSE ItemRaises(tx, item)

---------------------------------------------------------------------------
(* flatten_plaid_transactions_data: the call *)

accounts_list == GetOr(full_data, "accounts", EmptyList).v
transactions_list == GetOr(full_data, "transactions", EmptyList).v
item_info == GetOr(full_data, "item", EmptyDict)

\* lines 229-243: the inputs are read and the account lookup is built
BuildLookup ==
    /\ pc = "tx_start"
    /\ ~BuildLookupRaises
    /\ account_lookup' = AccountLookup(accounts_list, 1, <<>>)
    /\ pc' = "tx_loop"
    /\ UNCHANGED <<full_data, tx_index, flat_list>>
    /\ UNCHANGED notTxVars

\* FlattenTransaction that gives no row when the structure has no item
FlattenTransaction_NeedsItem ==
    /\ pc = "tx_loop"
    /\ tx_index < Len(transactions_list)
    /\ flat_list' = IF Truthy(item_info)
                    THEN Append(flat_list,
                                TxRow(transactions_list[tx_index + 1],
                                      account_lookup, item_info))
                    ELSE flat_list
    /\ tx_index' = tx_index + 1
    /\ UNCHANGED <<pc, full_data, account_lookup>>
    /\ UNCHANGED notTxVars

\* lines 245-310: one transaction gives one row
FlattenTransaction ==
    /\ pc = "tx_loop"
    /\ tx_index < Len(transactions_list)
    /\ ~TxRowRaises(transactions_list[tx_index + 1], account_lookup, item_info)
    /\ flat_list' = Append(flat_list,
                           TxRow(transactions_list[tx_index + 1], account_lookup,
                                 item_info))
    /\ tx_index' = tx_index + 1
    /\ UNCHANGED <<pc, full_data, account_lookup>>
    /\ UNCHANGED notTxVars

\* line 312: the transaction loop is exhausted, the list is returned
ReturnTransactions ==
    /\ pc = "tx_loop"
    /\ tx_index >= Len(transactions_list)
    /\ pc' = "tx_done"
    /\ UNCHANGED txVars
    /\ UNCHANGED notTxVars

NextTx ==
    \/ BuildLookup
    \/ FlattenTransaction
    \/ ReturnTransactions

\* lines 239-243: building the lookup raises; the exception leaves the function
RaiseInBuildLookup ==
    /\ pc = "tx_start"
    /\ BuildLookupRaises
    /\ pc' = "raised"
    /\ UNCHANGED txVars
    /\ UNCHANGED notTxVars

\* lines 245-308: building a row raises; the exception leaves the function,
\* the rows built so far are lost to the caller
RaiseInTransaction ==
    /\ pc = "tx_loop"
    /\ tx_index < Len(transactions_list)
    /\ TxRowRaises(transactions_list[tx_index + 1], account_lookup, item_info)
    /\ pc' = "raised"
    /\ UNCHANGED txVars
    /\ UNCHANGED notTxVars

---------------------------------------------------------------------------
(* The consolidated structures the transaction flattener is called with *)

TxItem1 ==
    JDict(<<KV("item_id", JStr("item_1")), KV("institution_id", JStr("ins_1")),
            KV("webhook", JStr("https://hook.example/1"))>>)
\* an item that names no institution
TxItem2 == JDict(<<KV("item_id", JStr("item_2"))>>)

TxAccount1 ==
    JDict(<<KV("account_id", JStr("acc_1")), KV("name", JStr("Checking")),
            KV("official_name", JStr("Gold Checking")), KV("subtype", JStr("checking")),
            KV("type", JStr("depository")),
            KV("balances", JDict(<<KV("available", JNum(90)), KV("current", JNum(100)),
                                   KV("iso_currency_code", JStr("USD")),
                                   KV("limit", JNull),
                                   KV("unofficial_currency_code", JNull)>>)),
            KV("holder_category", JStr("personal")), KV("mask", JStr("0000")),
            KV("institution_id_source", JStr("ins_1"))>>)
TxAccount2 ==
    JDict(<<KV("account_id", JStr("acc_2")), KV("name", JStr("Savings")),
            KV("institution_id_source", JStr("ins_2"))>>)
\* a second account under the id of the first
TxAccount1Again ==
    JDict(<<KV("account_id", JStr("acc_1")), KV("name", JStr("Brokerage")),
            KV("institution_id_source", JStr("ins_2"))>>)

TxAccountKinds == {TxAccount1, TxAccount2, TxAccount1Again}

\* a transaction: its id, its account_id (or Absent) and further items
TxOf(tid, account_id, extra) ==
    JDict(<<KV("transaction_id", JStr(tid))>> \o Opt("account_id", account_id)
          \o <<KV("amount", JNum(12)), KV("pending", JBool(FALSE))>> \o extra)

TxAccountIds == {Absent, JNull, JStr("acc_1"), JStr("acc_2"), JStr("acc_9")}

TxExtras ==
    {<<KV("location", JDict(<<KV("city", JStr("Austin")),
                              KV("coordinates", JDict(<<KV("lat", JNum(30)),
                                                        KV("lon", JNum(97))>>)),
                              KV("store_number", JNull)>>))>>,
     <<KV("counterparties",
          JList(<<JDict(<<KV("name", JStr("Uber")), KV("type", JStr("merchant"))>>),
                  JDict(<<KV("name", JStr("Visa")), KV("type", JStr("processor"))>>)>>))>>,
     <<KV("counterparties", EmptyList), KV("category", JList(<<JStr("Food")>>))>>,
     <<KV("institution_id_source", JStr("ins_2"))>>,
     <<KV("institution", JDict(<<KV("id_source", JStr("ins_3"))>>))>>,
     <<KV("location_city", JStr("Dallas")),
       KV("location", JDict(<<KV("city", JStr("Austin"))>>))>>,
     <<KV("payment_meta", JDict(<<KV("payee", JStr("Uber")),
                                  KV("tags", JList(<<JStr("a"), JBool(TRUE)>>))>>)),
       KV("merchant_name", JNull)>>}

TxKinds ==
    {TxOf(tid, aid, <<>>) : tid \in {"tx_1", "tx_2"}, aid \in TxAccountIds}
    \cup {TxOf("tx_3", JStr("acc_1"), e) : e \in TxExtras}

FullDataOf(accounts, transactions, item) ==
    JDict(Opt("accounts", accounts) \o Opt("transactions", transactions)
          \o Opt("item", item))

\* any transactions, against two accounts and an item
TransactionInputs ==
    {FullDataOf(JList(<<TxAccount1, TxAccount2>>), JList(txs), TxItem1) :
        txs \in SeqsUpTo(TxKinds, MaxTransactions)}
    \cup {FullDataOf(JList(<<TxAccount1>>), Absent, TxItem1)}

\* any accounts and item, against a matched and an unmatched transaction
AccountInputs ==
    {FullDataOf(accounts, JList(<<TxOf("tx_1", JStr("acc_1"), <<>>),
                                  TxOf("tx_2", JStr("acc_9"), <<>>)>>), item) :
        accounts \in {Absent} \cup {JList(l) : l \in SeqsUpTo(TxAccountKinds, MaxAccounts)},
        item \in {Absent, EmptyDict, TxItem1, TxItem2}}

\* accounts under an empty account_id, and a transaction that names it
TxAccountBlank == JDict(<<KV("account_id", JStr("")), KV("name", JStr("Cash"))>>)
TxAccountBlankAgain ==
    JDict(<<KV("account_id", JStr("")), KV("name", JStr("Petty cash"))>>)
BlankIdInputs ==
    {FullDataOf(JList(accounts),
                JList(<<TxOf("tx_1", JStr(""), <<>>),
                        TxOf("tx_2", JStr("acc_1"), <<>>)>>), TxItem1) :
        accounts \in {<<TxAccountBlank>>,
                      <<TxAccountBlank, TxAccount1, TxAccountBlankAgain>>}}

TxInputs == TransactionInputs \cup AccountInputs \cup BlankIdInputs

\* lines 221-229: the function is entered with one of the given inputs
TxCallOn(inputs) ==
    /\ full_data \in inputs
    /\ pc = "tx_start"
    /\ account_lookup = <<>>
    /\ tx_index = 0
    /\ flat_list = <<>>
    /\ all_raw_responses = <<>>
    /\ response_index = 0
    /\ account_index = 0
    /\ owner_index = 0
    /\ flat_identity_records = <<>>
    /\ call_no = 1
    /\ first_result = <<>>
    /\ NoWorkflow

InitTx == TxCallOn(TxInputs)

SpecTx == InitTx /\ [][NextTx]_vars

---------------------------------------------------------------------------
(* Calls with JSON that has a missing or wrongly typed nested field *)

EmailPrimary ==
    JDict(<<KV("data", JStr("a@x.org")), KV("primary", JBool(TRUE)),
            KV("type", JStr("primary"))>>)
PhoneHome ==
    JDict(<<KV("data", JStr("555-9999")), KV("primary", JBool(FALSE)),
            KV("type", JStr("home"))>>)
MalformedOwners ==
    {OwnerWith("addresses", <<NotADict>>),
     OwnerWith("addresses", <<JDict(<<KV("data", JStr("1 Main St"))>>)>>),
     JDict(<<KV("names", JList(<<JStr("Dan Eng")>>)), KV("addresses", JNull)>>),
     OwnerWith("emails", <<NotADict>>),
     OwnerWith("emails", <<EmailPrimary, NotADict>>),
     OwnerWith("phone_numbers", <<PhoneHome, NotADict>>)}
MalformedResponses ==
    {SingleOwnerBatch(o)[1] : o \in MalformedOwners}
    \cup {ResponseOf(JNull, JStr("req_1"), JList(<<AccountOf("acc_1", EmptyList)>>)),
          ResponseOf(Item2, JStr("req_1"),
              JList(<<AccountOf("acc_4",
                          JList(<<NotADict, OwnerWith("emails", <<NotADict>>)>>))>>)),
          ResponseOf(Item1, JStr("req_1"),
              JList(<<AccountOf("acc_1", JList(<<OwnerBob>>)),
                      JDict(<<KV("account_id", JStr("acc_2")),
                              KV("balances", JNull),
                              KV("owners", JList(<<OwnerBob>>))>>)>>))}
\* a malformed response alone, and after a response of each kind
MalformedBatches ==
    {<<r>> : r \in MalformedResponses}
    \cup {<<r1, r2>> : r1 \in ResponseKinds, r2 \in MalformedResponses}

TxPlain == TxOf("tx_1", JStr("acc_1"), <<>>)
TxTagged == TxOf("tx_3", JStr("acc_1"), <<KV("institution_id_source", JStr("ins_2"))>>)
MalformedFullData ==
    {\* an account without account_id
     FullDataOf(JList(<<TxAccount1, JDict(<<KV("name", JStr("Savings"))>>)>>),
                JList(<<TxPlain>>), TxItem1),
     \* an account that is not a mapping
     FullDataOf(JList(<<NotADict>>), JList(<<TxPlain>>), TxItem1),
     \* a transaction that is not a mapping, after one that is
     FullDataOf(JList(<<TxAccount1>>), JList(<<TxPlain, NotADict>>), TxItem1),
     \* a null item: harmless for the tagged transaction, not for the next
     FullDataOf(JList(<<TxAccount1>>), JList(<<TxTagged, TxPlain>>), JNull),
     FullDataOf(JList(<<TxAccount1>>), JList(<<TxTagged>>), JNull),
     \* an item that is a string
     FullDataOf(JList(<<TxAccount1>>), JList(<<TxPlain>>), JStr("item_1")),
     \* a counterparty that is a string
     FullDataOf(JList(<<TxAccount1>>),
                JList(<<TxOf("tx_2", JStr("acc_9"),
                             <<KV("counterparties", JList(<<JStr("Uber")>>))>>)>>),
                TxItem1),
     \* null balances on the matched account; the unmatched transaction is first
     FullDataOf(JList(<<JDict(<<KV("account_id", JStr("acc_1")),
                                KV("balances", JNull)>>)>>),
                JList(<<TxOf("tx_2", JStr("acc_9"), <<>>), TxPlain>>), TxItem1),
     \* null transactions
     FullDataOf(JList(<<TxAccount1>>), JNull, TxItem1)}

InitMalformed ==
    \/ IdentityCallOn(MalformedBatches)
    \/ TxCallOn(MalformedFullData)

NextMalformed ==
    \/ NextIdentity
    \/ RaiseInNoOwnerRecord
    \/ RaiseInOwnerRecord
    \/ NextTx
    \/ RaiseInBuildLookup
    \/ RaiseInTransaction

SpecMalformed == InitMalformed /\ [][NextMalformed]_vars

---------------------------------------------------------------------------
(* A flattener is called a second time on the input of its first call.  Both *)
(* functions keep everything in locals: the result list is created at the   *)
(* entry (lines 34 and 229), no module-level name is assigned, no parameter  *)
(* has a default.                                                            *)

\* CallIdentityAgain with a result list that outlives the call
CallIdentityAgain_SharedList ==
    /\ pc = "done"
    /\ call_no = 1
    /\ first_result' = flat_identity_records
    /\ call_no' = 2
    /\ pc' = "responses"
    /\ response_index' = 0
    /\ account_index' = 0
    /\ owner_index' = 0
    /\ UNCHANGED <<all_raw_responses, flat_identity_records>>
    /\ UNCHANGED <<txVars, wfVars>>

\* lines 15-37: the caller keeps the returned list and calls again
CallIdentityAgain ==
    /\ pc = "done"
    /\ call_no = 1
    /\ first_result' = flat_identity_records
    /\ call_no' = 2
    /\ pc' = "responses"
    /\ response_index' = 0
    /\ account_index' = 0
    /\ owner_index' = 0
    /\ flat_identity_records' = <<>>
    /\ UNCHANGED all_raw_responses
    /\ UNCHANGED <<txVars, wfVars>>

\* lines 221-229: the caller keeps the returned list and calls again
CallTxAgain ==
    /\ pc = "tx_done"
    /\ call_no = 1
    /\ first_result' = flat_list
    /\ call_no' = 2
    /\ pc' = "tx_start"
    /\ account_lookup' = <<>>
    /\ tx_index' = 0
    /\ flat_list' = <<>>
    /\ UNCHANGED full_data
    /\ UNCHANGED <<identityVars, wfVars>>

TwiceIdentityInputs ==
    ResponseBatches \cup AccountBatches \cup OwnerBatches \cup EmailBatches

InitTwice == IdentityCallOn(TwiceIdentityInputs) \/ TxCallOn(TxInputs)

NextTwice ==
    \/ NextIdentity
    \/ CallIdentityAgain
    \/ NextTx
    \/ CallTxAgain

SpecTwice == InitTwice /\ [][NextTwice]_vars

---------------------------------------------------------------------------
(* The workflow scripts of src/sandbox_plaid: configuration checks, the     *)
(* institution loop with its three calls per institution, and the exit.     *)
(* The scripts are sequential; a step of the model ends where the next      *)
(* answer of the network is awaited.                                        *)

LoopScripts == {"get_identity", "get_item", "get_transactions",
                "get_transactions_flattened"}
Scripts == LoopScripts \cup {"get_institutions"}

\* get_col_series_from_csv (lines 43-44) returns the distinct non-empty ids
\* of the seed file in file order
InstitutionId(i) == "ins_" \o ToString(i)
SeedLists == {[i \in 1..n |-> InstitutionId(i)] : n \in 0..MaxInstitutions}

FullSeed == [i \in 1..MaxInstitutions |-> InstitutionId(i)]
Configs ==
    {GoodConfig(seed) : seed \in SeedLists}
    \cup {[GoodConfig(FullSeed) EXCEPT !.CLIENT_ID = FALSE],
          [GoodConfig(FullSeed) EXCEPT !.SECRET = FALSE],
          [GoodConfig(FullSeed) EXCEPT !.DATA_DIR = FALSE],
          [GoodConfig(FullSeed) EXCEPT !.cfgs = FALSE, !.DATA_DIR = FALSE],
          [GoodConfig(<<>>) EXCEPT !.seed_file = FALSE]}

\* The status the configuration checks of a script exit with, NotExited when
\* they all pass.  An uncaught KeyError of cfgs["ENV_FILE_PATH"] or
\* cfgs["DATA_DIR"] ends the interpreter with status 1 as well.
ConfigExit(s, cfg) ==
    CASE s = "get_identity" ->
           IF ~cfg.cfgs THEN 1
           ELSE IF ~cfg.CLIENT_ID \/ ~cfg.SECRET THEN 1
           ELSE IF ~cfg.DATA_DIR THEN 1
           ELSE IF ~cfg.seed_file THEN 1
           ELSE IF cfg.seed = <<>> THEN 0
           ELSE NotExited
      [] s = "get_item" ->
           IF ~cfg.cfgs THEN 1
           ELSE IF ~cfg.DATA_DIR THEN 1
           ELSE IF ~cfg.CLIENT_ID \/ ~cfg.SECRET THEN 1
           ELSE IF ~cfg.seed_file THEN 1
           ELSE IF cfg.seed = <<>> THEN 0
           ELSE NotExited
      [] s \in {"get_transactions", "get_transactions_flattened"} ->
           IF ~cfg.DATA_DIR THEN 1
           ELSE IF ~cfg.CLIENT_ID \/ ~cfg.SECRET \/ ~cfg.cfgs THEN 1
           ELSE NotExited
      [] OTHER ->
           IF ~cfg.CLIENT_ID \/ ~cfg.SECRET \/ ~cfg.cfgs THEN 1
           ELSE IF ~cfg.DATA_DIR THEN 1
           ELSE NotExited

\* What requests.post can end with: an exception of the transport, or a
\* response with a status code and a body.  A body is a JSON value or text
\* that is not JSON.
NotJson == [t |-> "not_json"]
ConnectionError == [t |-> "ConnectionError"]
Timeout == [t |-> "Timeout"]
Response(status_code, body) ==
    [t |-> "response", status_code |-> status_code, body |-> body]
IsResponse(x) == x.t = "response"

TokenKey(endpoint) ==
    IF endpoint = "create_public_token" THEN "public_token" ELSE "access_token"
TokenBody(endpoint) == JDict(<<KV(TokenKey(endpoint), JStr("token-sandbox-1"))>>)
ErrorBody == JDict(<<KV("error_code", JStr("INVALID_INPUT"))>>)
ListBody == JList(<<JStr("unexpected")>>)

\* the data an institution answers the data endpoint with
DataBody(institution_id) ==
    JDict(<<KV("accounts",
               JList(<<JDict(<<KV("account_id", JStr("acc_1")),
                               KV("name", JStr("Checking at " \o institution_id))>>)>>)),
            KV("transactions",
               JList(<<JDict(<<KV("transaction_id", JStr("tx_1")),
                               KV("account_id", JStr("acc_1")),
                               KV("name", JStr("Card at " \o institution_id))>>)>>)),
            KV("item",
               JDict(<<KV("item_id", JStr("item_" \o institution_id)),
                       KV("institution_id", JStr(institution_id))>>))>>)

GoodBody(endpoint, institution_id) ==
    IF endpoint \in {"create_public_token", "exchange_token"}
    THEN TokenBody(endpoint)
    ELSE DataBody(institution_id)

Outcomes(endpoint, institution_id) ==
    {ConnectionError, Timeout,
     Response(200, GoodBody(endpoint, institution_id)),
     Response(200, EmptyDict),
     Response(200, ListBody),
     Response(200, NotJson),
     Response(201, GoodBody(endpoint, institution_id)),
     Response(300, GoodBody(endpoint, institution_id)),
     Response(404, ErrorBody)}

\* fetch_response, lines 35-72: one requests.post; raise_for_status raises
\* HTTPError for a status of 400 to 599; every exception gives None.
fetch_response(outcome) ==
    IF ~IsResponse(outcome) THEN JNull
    ELSE IF outcome.status_code >= 400 THEN JNull
    ELSE outcome

\* `response_obj and response_obj.status_code == 200`: a Response is true
\* when its status is below 400
Is200(response) ==
    IF ~IsResponse(response) THEN FALSE
    ELSE response.status_code < 400 /\ response.status_code = 200

\* TokenOf for a step that goes on whatever the response was
TokenOf_Always(response, key) == JStr("token-sandbox-0")

\* get_plaid_access_token lines 79-106 and 132-160 (and the same steps in
\* get_transactions_flattened.py lines 137-150, 165-177): what one token step
\* does with the response.  The try block catches json.JSONDecodeError only;
\* .get on a body that is not a mapping raises AttributeError out of it.
TokenStepRaises(response) ==
    IF ~Is200(response) THEN FALSE
    ELSE IF response.body = NotJson THEN FALSE
    ELSE ~IsDict(response.body)

TokenOf(response, key) ==
    IF ~Is200(response) THEN JNull
    ELSE IF response.body = NotJson THEN JNull
    ELSE Get(response.body, key)

\* data_to_json lines 31-54 and response_to_json lines 35-69: None for no
\* response and for a body that is not JSON, the parsed body otherwise
data_to_json(response) ==
    IF ~IsResponse(response) THEN JNull
    ELSE IF response.body = NotJson THEN JNull
    ELSE response.body

\* The exception that leaves the handling of the data response, "" for none.
DataStepRaises(s, response) ==
    CASE s \in {"get_identity", "get_item"} ->
           \* lines 174-186 (166-180): .keys() of the appended body
           IF ~Is200(response) THEN ""
           ELSE IF response.body = NotJson THEN ""
           ELSE IF ~IsDict(response.body) THEN "AttributeError"
           ELSE ""
      [] s = "get_transactions" ->
           \* lines 172-175: .json().keys() outside any try block
           IF ~IsResponse(response) THEN ""
           ELSE IF response.body = NotJson THEN "JSONDecodeError"
           ELSE IF ~IsDict(response.body) THEN "AttributeError"
           ELSE ""
      [] s = "get_transactions_flattened" ->
           \* lines 217-220: .get of a parsed body that is true
           IF data_to_json(response) = JNull THEN ""
           ELSE IF ~Truthy(data_to_json(response)) THEN ""
           ELSE IF ~IsDict(data_to_json(response)) THEN "AttributeError"
           ELSE ""
      [] OTHER ->
           \* get_institutions.py line 126
           IF ~IsResponse(response) THEN ""
           ELSE IF response.body = NotJson THEN "JSONDecodeError"
           ELSE IF ~IsDict(response.body) THEN "AttributeError"
           ELSE ""

\* the body the identity and item scripts append (lines 176-177, 168-171)
AppendedResponse(response) ==
    IF ~Is200(response) THEN <<>>
    ELSE IF response.body = NotJson THEN <<>>
    ELSE <<response.body>>

\* the mapping the transaction scripts take accounts and transactions from
\* (get_transactions.py lines 178-182, flattened lines 211-217)
InstitutionData(s, response) ==
    IF DataStepRaises(s, response) # "" THEN EmptyDict
    ELSE IF data_to_json(response) = JNull THEN EmptyDict
    ELSE IF ~Truthy(data_to_json(response)) THEN EmptyDict
    ELSE data_to_json(response)

\* Tagged for a loop that tags with the first id of the seed list
Tagged_FirstSeed(list, institution_id) ==
    [i \in 1..Len(list.v) |->
        SetItem(list.v[i], "institution_id_source", JStr(config.seed[1]))]

\* lines 189-192 (228-231): each element gets institution_id_source
Tagged(list, institution_id) ==
    [i \in 1..Len(list.v) |->
        SetItem(list.v[i], "institution_id_source", JStr(institution_id))]

\* lines 224-226 and 239-242 of the flattened script: a true item is kept
ItemDetails(s, data) ==
    IF s = "get_transactions_flattened" /\ Truthy(GetOr(data, "item", EmptyDict))
    THEN <<GetOr(data, "item", EmptyDict)>>
    ELSE <<>>

CurInstitution == config.seed[institution_index + 1]

Event(endpoint, outcome) ==
    [institution |-> CurInstitution, endpoint |-> endpoint, outcome |-> outcome]

\* NextInstitution for a loop that takes the same institution again
NextInstitution_SameAgain(i) == i

\* the loop variable moves to the next element of the seed list
NextInstitution(i) == i + 1

\* module level up to the loop: the configuration checks
CheckConfiguration ==
    /\ pc = "config"
    /\ IF ConfigExit(script, config) # NotExited
       THEN /\ pc' = "exited"
            /\ exit_status' = ConfigExit(script, config)
       ELSE /\ pc' = IF script = "get_institutions" THEN "institutions" ELSE "loop"
            /\ UNCHANGED exit_status
    /\ UNCHANGED <<script, config, institution_index, events, uncaught,
                   accumulatorVars, flattenerVars>>

\* An uncaught exception ends the interpreter with a traceback and status 1.
Abort(exception) ==
    /\ pc' = "exited"
    /\ exit_status' = 1
    /\ uncaught' = exception

\* `continue`, or the end of the loop body
Continue ==
    /\ pc' = "loop"
    /\ institution_index' = NextInstitution(institution_index)
    /\ UNCHANGED <<exit_status, uncaught>>

\* step 1 for the next institution: the public token is requested
CreatePublicToken ==
    /\ pc = "loop"
    /\ institution_index < Len(config.seed)
    /\ \E outcome \in Outcomes("create_public_token", CurInstitution) :
        /\ events' = Append(events, Event("create_public_token", outcome))
        /\ IF TokenStepRaises(fetch_response(outcome))
           THEN Abort("AttributeError") /\ UNCHANGED institution_index
           ELSE IF Truthy(TokenOf(fetch_response(outcome), "public_token"))
           THEN /\ pc' = "exchange"
                /\ UNCHANGED <<institution_index, exit_status, uncaught>>
           ELSE Continue
    /\ UNCHANGED <<script, config, accumulatorVars, flattenerVars>>

\* step 2: the public token is exchanged for an access token
ExchangeToken ==
    /\ pc = "exchange"
    /\ \E outcome \in Outcomes("exchange_token", CurInstitution) :
        /\ events' = Append(events, Event("exchange_token", outcome))
        /\ IF TokenStepRaises(fetch_response(outcome))
           THEN Abort("AttributeError") /\ UNCHANGED institution_index
           ELSE IF Truthy(TokenOf(fetch_response(outcome), "access_token"))
           THEN /\ pc' = "fetch"
                /\ UNCHANGED <<institution_index, exit_status, uncaught>>
           ELSE Continue
    /\ UNCHANGED <<script, config, accumulatorVars, flattenerVars>>

\* step 3: after the wait the data endpoint is called and its response is
\* put into the accumulators
FetchData ==
    /\ pc = "fetch"
    /\ \E outcome \in Outcomes("fetch_data", CurInstitution) :
        LET response == fetch_response(outcome)
            data == InstitutionData(script, response)
        IN  /\ events' = Append(Append(events, Event("wait", JNull)),
                                Event("fetch_data", outcome))
            /\ IF script \in {"get_identity", "get_item"}
               THEN /\ all_responses_data_list' =
                           all_responses_data_list \o AppendedResponse(response)
                    /\ UNCHANGED <<all_accounts_accumulator,
                                   all_transactions_accumulator,
                                   all_item_objects_accumulator>>
               ELSE /\ all_accounts_accumulator' = all_accounts_accumulator \o
                           Tagged(GetOr(data, "accounts", EmptyList), CurInstitution)
                    /\ all_transactions_accumulator' = all_transactions_accumulator \o
                           Tagged(GetOr(data, "transactions", EmptyList), CurInstitution)
                    /\ all_item_objects_accumulator' =
                           all_item_objects_accumulator \o ItemDetails(script, data)
                    /\ UNCHANGED all_responses_data_list
            /\ IF DataStepRaises(script, response) # ""
               THEN Abort(DataStepRaises(script, response))
                    /\ UNCHANGED institution_index
               ELSE Continue
    /\ UNCHANGED <<script, config, flattenerVars>>

\* get_transactions_flattened.py lines 278-291 (get_transactions.py 228-236)
ConsolidatedData ==
    JDict(<<KV("accounts", JList(all_accounts_accumulator)),
            KV("transactions", JList(all_transactions_accumulator))>>
          \o (IF script = "get_transactions_flattened"
              THEN <<KV("item", IF all_item_objects_accumulator # <<>>
                                THEN all_item_objects_accumulator[1]
                                ELSE EmptyDict)>>
              ELSE <<>>)
          \o <<KV("metadata", JDict(<<
                 KV("processed_institution_ids",
                    JList([i \in 1..Len(config.seed) |-> JStr(config.seed[i])])),
                 KV("total_accounts_retrieved",
                    JNum(Len(all_accounts_accumulator))),
                 KV("total_transactions_retrieved",
                    JNum(Len(all_transactions_accumulator)))>>))>>)

\* After the loop: the accumulated data are handed to the flattener of the
\* script and saved, and the script ends.  With nothing accumulated only
\* warnings are logged (and the transaction scripts write empty files).
SaveOutputs ==
    /\ pc = "loop"
    /\ institution_index = Len(config.seed)
    /\ pc' = "exited"
    /\ exit_status' = 0
    /\ all_raw_responses' =
          IF script = "get_identity" /\ all_responses_data_list # <<>>
          THEN all_responses_data_list ELSE all_raw_responses
    /\ full_data' =
          IF /\ script = "get_transactions_flattened"
             /\ all_transactions_accumulator # <<>>
          THEN ConsolidatedData ELSE full_data
    /\ UNCHANGED <<script, config, institution_index, events, uncaught,
                   accumulatorVars>>
    /\ UNCHANGED <<response_index, account_index, owner_index,
                   flat_identity_records, account_lookup, tx_index, flat_list,
                   callVars>>

\* get_institutions.py lines 117-159: the one fetch of the institutions list
FetchInstitutions ==
    /\ pc = "institutions"
    /\ \E outcome \in Outcomes("fetch_data", "ins_0") :
        LET response == fetch_response(outcome)
        IN  /\ events' = Append(events, [institution |-> "ins_0",
                                         endpoint |-> "fetch_data",
                                         outcome |-> outcome])
            /\ IF DataStepRaises(script, response) # ""
               THEN /\ Abort(DataStepRaises(script, response))
                    /\ UNCHANGED all_responses_data_list
               ELSE /\ pc' = "exited"
                    /\ exit_status' = 0
                    /\ UNCHANGED uncaught
                    /\ all_responses_data_list' =
                          IF IsResponse(response)
                          THEN <<data_to_json(response)>> ELSE <<>>
    /\ UNCHANGED <<script, config, institution_index, all_accounts_accumulator,
                   all_transactions_accumulator, all_item_objects_accumulator,
                   flattenerVars>>

NextWorkflow ==
    \/ CheckConfiguration
    \/ CreatePublicToken
    \/ ExchangeToken
    \/ FetchData
    \/ SaveOutputs
    \/ FetchInstitutions

\* a script is started
InitWorkflow ==
    /\ script \in Scripts
    /\ config \in Configs
    /\ pc = "config"
    /\ institution_index = 0
    /\ events = <<>>
    /\ all_responses_data_list = <<>>
    /\ all_accounts_accumulator = <<>>
    /\ all_transactions_accumulator = <<>>
    /\ all_item_objects_accumulator = <<>>
    /\ exit_status = NotExited
    /\ uncaught = ""
    /\ NoFlattenerCall

SpecWorkflow == InitWorkflow /\ [][NextWorkflow]_vars

---------------------------------------------------------------------------
(* get_transactions_flattened.py from its start to the end of the flattener
   call on the consolidated data *)

\* lines 257-273: no transaction was accumulated, empty files are written
SaveNothing ==
    /\ all_transactions_accumulator = <<>>
    /\ SaveOutputs

\* lines 275-315: the consolidated data are saved and handed to
\* flatten_plaid_transactions_data
SaveAndFlatten ==
    /\ pc = "loop"
    /\ institution_index = Len(config.seed)
    /\ script = "get_transactions_flattened"
    /\ all_transactions_accumulator # <<>>
    /\ full_data' = ConsolidatedData
    /\ pc' = "tx_start"
    /\ UNCHANGED <<account_lookup, tx_index, flat_list>>
    /\ UNCHANGED <<identityVars, callVars, wfVars>>

\* lines 317-340: the records are saved as CSV and run_workflow returns
FinishWorkflow ==
    /\ pc = "tx_done"
    /\ script = "get_transactions_flattened"
    /\ pc' = "exited"
    /\ exit_status' = 0
    /\ UNCHANGED <<script, config, institution_index, events, uncaught,
                   accumulatorVars, flattenerVars>>

NextConsolidated ==
    \/ CheckConfiguration
    \/ CreatePublicToken
    \/ ExchangeToken
    \/ FetchData
    \/ SaveNothing
    \/ SaveAndFlatten
    \/ BuildLookup
    \/ FlattenTransaction
    \/ ReturnTransactions
    \/ FinishWorkflow

InitConsolidated ==
    /\ InitWorkflow
    /\ script = "get_transactions_flattened"

SpecConsolidated == InitConsolidated /\ [][NextConsolidated]_vars

---------------------------------------------------------------------------
(* Either flattener is called *)
Init == InitIdentity \/ InitTx
Next == NextIdentity \/ NextTx
Spec == Init /\ [][Next]_vars

---------------------------------------------------------------------------
(* Properties of the identity flattener *)

Max(a, b) == IF a >= b THEN a ELSE b
RECURSIVE SumSeq(_)
SumSeq(s) == IF Len(s) = 0 THEN 0 ELSE s[1] + SumSeq(Tail(s))
StartsWith(str, prefix) ==
    Len(str) >= Len(prefix) /\ SubSeq(str, 1, Len(prefix)) = prefix
LastOf(s) == s[Len(s)]

\* the entries of a response's accounts list and of an account's owners list
AccountEntries(response) ==
    IF IsDict(response) THEN GetOr(response, "accounts", EmptyList).v ELSE <<>>
OwnerEntries(account) ==
    IF IsDict(account) THEN GetOr(account, "owners", EmptyList).v ELSE <<>>

\* sum over all accounts of all responses with accounts of max(1, owners)
ClaimedRecordCount(batch) ==
    SumSeq([r \in 1..Len(batch) |->
        SumSeq([a \in 1..Len(AccountEntries(batch[r])) |->
            Max(1, Len(OwnerEntries(AccountEntries(batch[r])[a])))])])

\* the same sum over the accounts that are mappings: 1 for an account without
\* owners, else the number of its owners that are mappings
MappingRecordCount(batch) ==
    SumSeq([r \in 1..Len(batch) |->
        SumSeq([a \in 1..Len(AccountEntries(batch[r])) |->
            LET account == AccountEntries(batch[r])[a]
                owners == OwnerEntries(account)
            IN  IF ~IsDict(account) THEN 0
                ELSE IF Len(owners) = 0 THEN 1
                ELSE Cardinality({o \in 1..Len(owners) : IsDict(owners[o])})])])

OwnerColumns ==
    {"owner_name", "owner_address_street", "owner_address_city",
     "owner_address_region", "owner_address_postal_code", "owner_address_country",
     "owner_address_primary", "owner_email_data", "owner_email_primary",
     "owner_email_type", "owner_phone_data", "owner_phone_primary",
     "owner_phone_type"}

\* C2: every record appended carries the account_id of the account the loop
\* stands on and the item_id and institution_id of the item of that response;
\* the step taken on an account with no owners appends exactly one record,
\* finishes the account, and that record has no owner field with a value.
C2_RecordIdentifiers ==
    [][/\ (flat_identity_records' # flat_identity_records) =>
              /\ Len(flat_identity_records') = Len(flat_identity_records) + 1
              /\ SubSeq(flat_identity_records', 1, Len(flat_identity_records))
                     = flat_identity_records
              /\ LET rec == LastOf(flat_identity_records')
                 IN  /\ {"account_id", "item_id", "item_institution_id"} \subseteq Keys(rec)
                     /\ Get(rec, "account_id") = Get(CurAccount, "account_id")
                     /\ Get(rec, "item_id") = Get(CurItemInfo, "item_id")
                     /\ Get(rec, "item_institution_id")
                            = Get(CurItemInfo, "institution_id")
       /\ (InAccountLoop /\ IsDict(CurAccount) /\ ~Truthy(CurOwners)) =>
              /\ Len(flat_identity_records') = Len(flat_identity_records) + 1
              /\ account_index' = account_index + 1
              /\ pc' = "accounts"
              /\ \A f \in OwnerColumns :
                     Get(LastOf(flat_identity_records'), f) = JNull
      ]_vars

\* an account without owners has just given its record, after an owner's record
C2_Witness ==
    /\ pc = "accounts"
    /\ account_index >= 1
    /\ LET account == CurAccounts.v[account_index]
           rec == LastOf(flat_identity_records)
       IN  /\ IsDict(account)
           /\ Len(OwnerEntries(account)) = 0
           /\ Len(flat_identity_records) >= 2
           /\ Get(rec, "account_id") = Get(account, "account_id")
           /\ Truthy(Get(rec, "account_id"))
           /\ Truthy(Get(rec, "item_institution_id"))
           /\ Get(rec, "owner_name") = JNull
           /\ \E i \in 1..Len(flat_identity_records) :
                  Truthy(Get(flat_identity_records[i], "owner_name"))

\* C3: all records of the output have the same set of field names.
C3_FixedWidth ==
    \A i, j \in 1..Len(flat_identity_records) :
        Keys(flat_identity_records[i]) = Keys(flat_identity_records[j])

\* the owner loop has just flattened a mapping owner: its record is the last
OwnerFlattened ==
    /\ pc = "owners"
    /\ owner_index >= 1
    /\ IsDict(CurOwners.v[owner_index])
FlattenedOwner == CurOwners.v[owner_index]
OwnerRow == LastOf(flat_identity_records)

ContactsOf(owner, k) == GetOr(owner, k, EmptyList).v
FlaggedPrimary(entry) == Truthy(Get(entry, "primary"))
PrimaryPositions(entries) == {i \in 1..Len(entries) : FlaggedPrimary(entries[i])}
MobilePositions(entries) ==
    {i \in 1..Len(entries) : Get(entries[i], "type") = JStr("mobile")}
First(positions) == CHOOSE i \in positions : \A j \in positions : i <= j

AddressParts == {"street", "city", "region", "postal_code", "country"}
AddressTakenFrom(rec, data) ==
    \A part \in AddressParts : Get(rec, "owner_address_" \o part) = Get(data, part)

\* C4: for an owner with addresses none of which is flagged primary, the
\* owner_address_* fields are those of the data of the first address and
\* owner_address_primary is false.
C4_FirstAddressFallback ==
    OwnerFlattened =>
        LET addrs == ContactsOf(FlattenedOwner, "addresses") IN
        (Len(addrs) >= 1 /\ PrimaryPositions(addrs) = {}) =>
            /\ AddressTakenFrom(OwnerRow, GetOr(addrs[1], "data", EmptyDict))
            /\ Get(OwnerRow, "owner_address_primary") = JBool(FALSE)

\* C5: for an owner with an address flagged primary, the owner_address_*
\* fields are those of the data of the first such address and
\* owner_address_primary is true; it is true only if one was found.
C5_PrimaryAddress ==
    OwnerFlattened =>
        LET addrs == ContactsOf(FlattenedOwner, "addresses")
            prim == PrimaryPositions(addrs)
        IN  /\ prim # {} =>
                   /\ AddressTakenFrom(OwnerRow,
                          GetOr(addrs[First(prim)], "data", EmptyDict))
                   /\ Get(OwnerRow, "owner_address_primary") = JBool(TRUE)
            /\ Get(OwnerRow, "owner_address_primary") = JBool(TRUE) => prim # {}

\* C6: for an owner with no addresses (key absent or empty list), every
\* owner_address_* field is in the record with value null, and
\* owner_address_primary is null.
C6_NoAddress ==
    OwnerFlattened =>
        (Len(ContactsOf(FlattenedOwner, "addresses")) = 0 =>
            \A part \in AddressParts \cup {"primary"} :
                /\ HasKey(OwnerRow, "owner_address_" \o part)
                /\ Get(OwnerRow, "owner_address_" \o part) = JNull)

\* an owner with an empty address list was flattened
C6_Witness ==
    /\ OwnerFlattened
    /\ HasKey(FlattenedOwner, "addresses")
    /\ Len(ContactsOf(FlattenedOwner, "addresses")) = 0
    /\ Get(OwnerRow, "owner_address_primary") = JNull
    /\ Get(OwnerRow, "owner_address_city") = JNull
    /\ Truthy(Get(OwnerRow, "owner_name"))

\* C7: the owner_email_* fields are those of one email entry: the first
\* flagged primary, else the first in input order, and null without emails.
C7_EmailSelection ==
    OwnerFlattened =>
        LET emails == ContactsOf(FlattenedOwner, "emails")
            prim == PrimaryPositions(emails)
            chosen == IF prim # {} THEN emails[First(prim)]
                      ELSE IF Len(emails) >= 1 THEN emails[1]
                      ELSE EmptyDict
        IN  /\ Get(OwnerRow, "owner_email_data") = Get(chosen, "data")
            /\ Get(OwnerRow, "owner_email_primary") = Get(chosen, "primary")
            /\ Get(OwnerRow, "owner_email_type") = Get(chosen, "type")

\* C8: the owner_phone_* fields are those of one phone entry: the first
\* flagged primary, else the first of type mobile, else the first of any
\* type, and null without phones; one non-primary mobile phone gives
\* owner_phone_primary false and owner_phone_type mobile.
C8_PhoneSelection ==
    OwnerFlattened =>
        LET phones == ContactsOf(FlattenedOwner, "phone_numbers")
            prim == PrimaryPositions(phones)
            mobile == MobilePositions(phones)
            chosen == IF prim # {} THEN phones[First(prim)]
                      ELSE IF mobile # {} THEN phones[First(mobile)]
                      ELSE IF Len(phones) >= 1 THEN phones[1]
                      ELSE EmptyDict
        IN  /\ Get(OwnerRow, "owner_phone_data") = Get(chosen, "data")
            /\ Get(OwnerRow, "owner_phone_primary") = Get(chosen, "primary")
            /\ Get(OwnerRow, "owner_phone_type") = Get(chosen, "type")
            /\ (Len(phones) = 1 /\ mobile # {}
                   /\ Get(phones[1], "primary") = JBool(FALSE)) =>
                   /\ Get(OwnerRow, "owner_phone_primary") = JBool(FALSE)
                   /\ Get(OwnerRow, "owner_phone_type") = JStr("mobile")

---------------------------------------------------------------------------
(* Properties of the transaction flattener *)

\* a nested field of the transaction writes the column col as well
WrittenByNested(tx, col) ==
    \E k \in Keys(tx) :
        /\ IsDict(Get(tx, k))
        /\ \E sub \in Keys(Get(tx, k)) : "tx_" \o k \o "_" \o sub = col

\* the row is the one of this transaction: it has the column tx_k of every
\* scalar field k, with the value of k where no nested field writes tx_k too
CarriesOwnFields(row, tx) ==
    \A k \in Keys(tx) :
        IsScalar(Get(tx, k)) =>
            /\ HasKey(row, "tx_" \o k)
            /\ ~WrittenByNested(tx, "tx_" \o k) =>
                   Get(row, "tx_" \o k) = Get(tx, k)

\* C9: there is one record per transaction, in the order of the
\* transactions: the i-th record carries the fields of the i-th transaction,
\* whatever the accounts and the item are.
C9_OneRowPerTransaction ==
    /\ pc \in {"tx_loop", "tx_done"} => Len(flat_list) = tx_index
    /\ pc = "tx_done" => Len(flat_list) = Len(transactions_list)
    /\ \A i \in 1..Len(flat_list) : CarriesOwnFields(flat_list[i], transactions_list[i])

\* two different transactions were flattened without accounts and item
C9_Witness ==
    /\ pc = "tx_done"
    /\ Len(flat_list) = 2
    /\ Len(accounts_list) = 0
    /\ ~Truthy(item_info)
    /\ Get(flat_list[1], "tx_transaction_id") = JStr("tx_1")
    /\ Get(flat_list[2], "tx_transaction_id") = JStr("tx_2")

\* no account of the input has the transaction's account_id
Unmatched(tx) ==
    \A j \in 1..Len(accounts_list) :
        Get(accounts_list[j], "account_id") # Get(tx, "account_id")

\* C10: a transaction whose account_id matches no account, or is absent,
\* still gives a record, with the transaction's own tx_ fields and with no
\* acc_ field, and the call returns all its records.
C10_UnmatchedAccount ==
    /\ pc = "tx_done" => Len(flat_list) = Len(transactions_list)
    /\ \A i \in 1..Len(flat_list) :
           Unmatched(transactions_list[i]) =>
               /\ CarriesOwnFields(flat_list[i], transactions_list[i])
               /\ \A k \in Keys(flat_list[i]) : ~StartsWith(k, "acc_")

\* a transaction of an unknown account was flattened beside a matched one
C10_Witness ==
    /\ pc = "tx_done"
    /\ Len(accounts_list) >= 1
    /\ \E i, j \in 1..Len(flat_list) :
           /\ Unmatched(transactions_list[i])
           /\ Get(flat_list[i], "tx_account_id") = JStr("acc_9")
           /\ ~HasKey(flat_list[i], "acc_name")
           /\ HasKey(flat_list[j], "acc_name")

\* the institution the item names, None when it names none
ItemInstitution ==
    IF IsDict(item_info) THEN Get(item_info, "institution_id") ELSE JNull

\* C11: the institution_id_source of a record is the transaction's own tag
\* when it has one, else the row's tx_institution_id_source when the row has
\* one, else the item's institution_id; the field is absent only when none
\* of the three exists.
C11_InstitutionSource ==
    \A i \in 1..Len(flat_list) :
        LET row == flat_list[i]
            tx == transactions_list[i]
        IN  IF HasKey(tx, "institution_id_source")
            THEN /\ HasKey(row, "institution_id_source")
                 /\ Get(row, "institution_id_source") = Get(tx, "institution_id_source")
            ELSE IF HasKey(row, "tx_institution_id_source")
            THEN /\ HasKey(row, "institution_id_source")
                 /\ Get(row, "institution_id_source")
                        = Get(row, "tx_institution_id_source")
            ELSE IF ItemInstitution # JNull
            THEN /\ HasKey(row, "institution_id_source")
                 /\ Get(row, "institution_id_source") = ItemInstitution
            ELSE ~HasKey(row, "institution_id_source")

\* a tagged transaction kept its tag against an item of another institution,
\* beside an untagged transaction that took the item's institution
C11_Witness ==
    /\ pc = "tx_done"
    /\ ItemInstitution = JStr("ins_1")
    /\ \E i, j \in 1..Len(flat_list) :
           /\ Get(transactions_list[i], "institution_id_source") = JStr("ins_2")
           /\ Get(flat_list[i], "institution_id_source") = JStr("ins_2")
           /\ ~HasKey(transactions_list[j], "institution_id_source")
           /\ ~HasKey(flat_list[j], "tx_institution_id_source")
           /\ Get(flat_list[j], "institution_id_source") = JStr("ins_1")

ItemColumns == {"item_id", "item_institution_id", "item_webhook"}

\* C12: within one call every record carries the same item fields: when the
\* structure has an item, each record has item_id, item_institution_id and
\* item_webhook with the values of that item (null for a value the item
\* lacks), and no two records differ in an item field.
C12_ItemFields ==
    /\ \A i \in 1..Len(flat_list) :
           (IsDict(item_info) /\ Truthy(item_info)) =>
               /\ ItemColumns \subseteq Keys(flat_list[i])
               /\ Get(flat_list[i], "item_id") = Get(item_info, "item_id")
               /\ Get(flat_list[i], "item_institution_id")
                      = Get(item_info, "institution_id")
               /\ Get(flat_list[i], "item_webhook") = Get(item_info, "webhook")
    /\ \A i, j \in 1..Len(flat_list) :
           \A k \in ItemColumns :
               /\ HasKey(flat_list[i], k) <=> HasKey(flat_list[j], k)
               /\ Get(flat_list[i], k) = Get(flat_list[j], k)

\* a matched and an unmatched transaction both got the fields of the item
C12_Witness ==
    /\ pc = "tx_done"
    /\ Len(flat_list) = 2
    /\ HasKey(flat_list[1], "acc_name")
    /\ ~HasKey(flat_list[2], "acc_name")
    /\ \A i \in 1..2 :
           /\ Get(flat_list[i], "item_id") = JStr("item_1")
           /\ Get(flat_list[i], "item_institution_id") = JStr("ins_1")
           /\ Get(flat_list[i], "item_webhook") = JStr("https://hook.example/1")

\* the column of the field k of a transaction, and of its sub-key sub
TxColumn(k) == "tx_" \o k
TxSubColumn(k, sub) == "tx_" \o k \o "_" \o sub

\* what the record holds for a sub-value: a nested mapping or sequence as its
\* JSON text, a scalar as it is
Stored(sub_value) ==
    IF IsDict(sub_value) \/ IsList(sub_value)
    THEN JStr(JsonDumps(sub_value))
    ELSE sub_value

\* C13: every scalar field k of a transaction is in its record as tx_k with
\* the value unchanged, and every field k holding a mapping gives one field
\* tx_k_s per sub-key s, with a scalar sub-value unchanged and a sub-value
\* that is a mapping or a sequence as its JSON-serialized string.
C13_TxFieldsFlattened ==
    \A i \in 1..Len(flat_list) :
        LET row == flat_list[i]
            tx == transactions_list[i]
        IN  \A k \in Keys(tx) :
                /\ IsScalar(Get(tx, k)) =>
                       /\ HasKey(row, TxColumn(k))
                       /\ Get(row, TxColumn(k)) = Get(tx, k)
                /\ IsDict(Get(tx, k)) =>
                       \A sub \in Keys(Get(tx, k)) :
                           /\ HasKey(row, TxSubColumn(k, sub))
                           /\ Get(row, TxSubColumn(k, sub))
                                  = Stored(Get(Get(tx, k), sub))

\* an account of the input has the account_id of the transaction
HasAccount(tx) ==
    /\ HasKey(tx, "account_id")
    /\ \E j \in 1..Len(accounts_list) :
           Get(accounts_list[j], "account_id") = Get(tx, "account_id")

\* the last account of the input, in input order, under that account_id
LastAccount(tx) ==
    LET last == CHOOSE j \in 1..Len(accounts_list) :
                    /\ Get(accounts_list[j], "account_id") = Get(tx, "account_id")
                    /\ \A m \in (j + 1)..Len(accounts_list) :
                           Get(accounts_list[m], "account_id") # Get(tx, "account_id")
    IN  accounts_list[last]

\* the row carries the acc_ fields of the account
JoinedTo(row, acc) ==
    /\ HasKey(row, "acc_account_id")
    /\ Get(row, "acc_account_id") = Get(acc, "account_id")
    /\ Get(row, "acc_name") = Get(acc, "name")
    /\ Get(row, "acc_mask") = Get(acc, "mask")
    /\ Get(row, "acc_institution_id_source") = Get(acc, "institution_id_source")

\* C24: the lookup is keyed by account_id and the last account of an id in
\* input order wins: every transaction whose account_id is that of some
\* account and is not empty (not "", 0 or null) is joined to the last such
\* account.
C24_LastAccountWins ==
    \A i \in 1..Len(flat_list) :
        LET tx == transactions_list[i]
        IN  (HasAccount(tx) /\ Truthy(Get(tx, "account_id"))) =>
                JoinedTo(flat_list[i], LastAccount(tx))

\* C24 as stated: every transaction whose account_id is that of some account
\* is joined to the last such account.
C24_AsStated ==
    \A i \in 1..Len(flat_list) :
        HasAccount(transactions_list[i]) =>
            JoinedTo(flat_list[i], LastAccount(transactions_list[i]))

\* a transaction was joined to the second of two accounts under its id, with
\* an account of another id after them
C24_Witness ==
    /\ pc = "tx_done"
    /\ accounts_list = <<TxAccount1, TxAccount1Again, TxAccount2>>
    /\ Get(flat_list[1], "tx_account_id") = JStr("acc_1")
    /\ Get(flat_list[1], "acc_name") = JStr("Brokerage")

\* the mapping without the key k
Without(d, k) == JDict(SelectSeq(d.v, LAMBDA kv : kv[1] # k))

\* two mappings with the same keys and the same value under each key
SameMapping(a, b) ==
    /\ Keys(a) = Keys(b)
    /\ \A k \in Keys(a) : Get(a, k) = Get(b, k)

\* the record of the transaction had it not had the field k
RowWithout(tx, k) == TxRow(Without(tx, k), account_lookup, item_info)

\* C25: a field of a transaction whose value is a sequence adds nothing to
\* the record, unless it is a non-empty counterparties: then the record has
\* the name and the type of the first element as tx_counterparties_0_name
\* and tx_counterparties_0_type, and nothing of the other elements.
C25_SequenceFields ==
    \A i \in 1..Len(flat_list) :
        LET row == flat_list[i]
            tx == transactions_list[i]
        IN  \A k \in Keys(tx) :
                IsList(Get(tx, k)) =>
                    IF k = "counterparties" /\ Get(tx, k).v # <<>>
                    THEN SameMapping(
                             row,
                             SetItem(SetItem(RowWithout(tx, k),
                                             "tx_counterparties_0_name",
                                             Get(Get(tx, k).v[1], "name")),
                                     "tx_counterparties_0_type",
                                     Get(Get(tx, k).v[1], "type")))
                    ELSE SameMapping(row, RowWithout(tx, k))

\* one call flattened a transaction with two counterparties and a transaction
\* with an empty counterparties and a category list
C25_Witness ==
    /\ pc = "tx_done"
    /\ Len(flat_list) = 2
    /\ HasKey(transactions_list[1], "counterparties")
    /\ Len(Get(transactions_list[1], "counterparties").v) = 2
    /\ Get(flat_list[1], "tx_counterparties_0_name") = JStr("Uber")
    /\ Get(flat_list[1], "tx_counterparties_0_type") = JStr("merchant")
    /\ HasKey(transactions_list[2], "category")
    /\ Get(transactions_list[2], "counterparties") = EmptyList
    /\ ~HasKey(flat_list[2], "tx_category")
    /\ ~HasKey(flat_list[2], "tx_counterparties_0_name")

\* the number of assignments to the record made for the transaction's own
\* fields from its i-th on: one per scalar field, one per sub-key of a
\* mapping, two for a non-empty counterparties
RECURSIVE TxWrites(_, _)
TxWrites(tx, i) ==
    IF i > Len(tx.v) THEN 0
    ELSE LET key == tx.v[i][1]
             value == tx.v[i][2]
         IN  (IF IsDict(value) THEN Len(value.v)
              ELSE IF IsList(value)
              THEN IF key = "counterparties" /\ Truthy(value) THEN 2 ELSE 0
              ELSE 1) + TxWrites(tx, i + 1)

\* the number of assignments of acc_ and item_ columns made for the record
JoinWrites(tx) ==
    (IF /\ Truthy(Get(tx, "account_id"))
        /\ LookupHas(account_lookup, Get(tx, "account_id"))
     THEN 13 ELSE 0)
    + (IF Truthy(item_info) THEN 3 ELSE 0)

\* C28: no column of a record is assigned twice: the record has as many
\* columns as assignments were made for the fields of the transaction, of
\* its matched account and of the item (and for institution_id_source,
\* assigned only when absent).
C28_NoColumnWrittenTwice ==
    \A i \in 1..Len(flat_list) :
        LET row == flat_list[i]
            tx == transactions_list[i]
        IN  Len(row.v) = TxWrites(tx, 1) + JoinWrites(tx)
                         + (IF HasKey(row, "institution_id_source") THEN 1 ELSE 0)

---------------------------------------------------------------------------
(* Properties of both flatteners *)

C15_NoException == pc # "raised"

\* the scan of the owner's list k reached an entry that is not a mapping
EntryScanRaises(owner, k) ==
    IsList(GetOr(owner, k, EmptyList)) /\ ContactsRaise(owner, k)

\* the first statement that raises in the record of the owner is the .get of
\* an address, email or phone entry that is not a mapping
RaisesOnEntry(item, account, owner) ==
    IF BaseRecordRaises(item, account) THEN FALSE
    ELSE IF NamesRaise(owner) THEN FALSE
    ELSE IF ContactsRaise(owner, "addresses")
         THEN EntryScanRaises(owner, "addresses")
    ELSE IF AddressDataRaises(owner) THEN FALSE
    ELSE IF ContactsRaise(owner, "emails") THEN EntryScanRaises(owner, "emails")
    ELSE EntryScanRaises(owner, "phone_numbers")

\* the identity call stands on an owner that is a mapping
OnOwner ==
    /\ all_raw_responses # <<>>
    /\ response_index < Len(all_raw_responses)
    /\ IsDict(CurResponse)
    /\ IsList(CurAccounts)
    /\ account_index < Len(CurAccounts.v)
    /\ IsDict(CurAccount)
    /\ IsList(CurOwners)
    /\ owner_index < Len(CurOwners.v)
    /\ IsDict(CurOwner)

\* C21: in the identity flattener an address, email or phone entry that is
\* not a mapping is never fatal: the call does not end with an exception
\* raised on such an entry (it is skipped and the call goes on, as for a
\* response, account or owner that is not a mapping).
C21_NonMappingNeverFatal ==
    ~( /\ pc = "raised"
       /\ OnOwner
       /\ RaisesOnEntry(CurItemInfo, CurAccount, CurOwner) )

\* the records of the owners of an account from the j-th on, in their order
RECURSIVE RecordsOfOwners(_, _, _, _, _)
RecordsOfOwners(rid, itm, acct, ownrs, j) ==
    IF j > Len(ownrs) THEN <<>>
    ELSE (IF IsDict(ownrs[j])
          THEN <<OwnerRecord(rid, itm, acct, ownrs[j])>> ELSE <<>>)
         \o RecordsOfOwners(rid, itm, acct, ownrs, j + 1)

\* the records of the accounts of a response from the j-th on, in their order
RECURSIVE RecordsOfAccounts(_, _, _, _)
RecordsOfAccounts(rid, itm, accts, j) ==
    IF j > Len(accts) THEN <<>>
    ELSE (IF ~IsDict(accts[j]) THEN <<>>
          ELSE IF ~Truthy(GetOr(accts[j], "owners", EmptyList))
          THEN <<NoOwnerRecord(rid, itm, accts[j])>>
          ELSE RecordsOfOwners(rid, itm, accts[j],
                               GetOr(accts[j], "owners", EmptyList).v, 1))
         \o RecordsOfAccounts(rid, itm, accts, j + 1)

\* the records of the responses from the i-th on, in their order
RECURSIVE RecordsInOrder(_)
RecordsInOrder(i) ==
    IF i > Len(all_raw_responses) THEN <<>>
    ELSE LET resp == all_raw_responses[i]
         IN  (IF IsDict(resp) /\ Truthy(GetOr(resp, "accounts", EmptyList))
              THEN RecordsOfAccounts(RequestId(resp, i - 1),
                                     GetOr(resp, "item", EmptyDict),
                                     GetOr(resp, "accounts", EmptyList).v, 1)
              ELSE <<>>)
             \o RecordsInOrder(i + 1)

\* C30: the identity records are emitted in source order: at every moment
\* the records emitted so far are the first of the sequence that takes the
\* responses in their order, in each response its accounts in their order,
\* and in each account its owners in their order; at the return they are the
\* whole of it.
C30_SourceOrder ==
    LET in_order == RecordsInOrder(1)
    IN  /\ Len(flat_identity_records) <= Len(in_order)
        /\ flat_identity_records = SubSeq(in_order, 1, Len(flat_identity_records))
        /\ pc = "done" => flat_identity_records = in_order

\* a call has returned records of more than one response, those of the
\* earlier response first
C30_Witness ==
    /\ pc = "done"
    /\ call_no = 1
    /\ Len(flat_identity_records) >= 2
    /\ Len(all_raw_responses) >= 2
    /\ IsDict(all_raw_responses[1])
    /\ Get(flat_identity_records[1], "request_id_source")
           = RequestId(all_raw_responses[1], 0)
    /\ Get(flat_identity_records[Len(flat_identity_records)], "request_id_source")
           # Get(flat_identity_records[1], "request_id_source")

\* every value of the record is a string, a number, a boolean or None:
\* values that cannot be modified, so none that a change could reach the
\* input through
OnlyScalars(record) == \A k \in Keys(record) : IsScalar(Get(record, k))

\* the records after a step are those before it, or none (a new call has
\* started), or those before it and one more record of immutable values
GrewBy(old, new) ==
    \/ new = old
    \/ new = <<>>
    \/ /\ Len(new) = Len(old) + 1
       /\ SubSeq(new, 1, Len(old)) = old
       /\ OnlyScalars(new[Len(new)])

---------------------------------------------------------------------------
(* Properties of the workflow scripts *)

\* a call of the log that gave no data: an exception of the transport, an
\* HTTP error status, or a body that is not JSON
CallFailed(e) ==
    IF e.endpoint = "wait" THEN FALSE
    ELSE IF ~IsResponse(e.outcome) THEN TRUE
    ELSE e.outcome.status_code >= 400 \/ e.outcome.body = NotJson

SourceOf(x) == Get(x, "institution_id_source")

\* the accumulators hold something fetched from the institution
Contributed(institution_id) ==
    \/ \E i \in 1..Len(all_responses_data_list) :
           all_responses_data_list[i] = DataBody(institution_id)
    \/ \E i \in 1..Len(all_accounts_accumulator) :
           SourceOf(all_accounts_accumulator[i]) = JStr(institution_id)
    \/ \E i \in 1..Len(all_transactions_accumulator) :
           SourceOf(all_transactions_accumulator[i]) = JStr(institution_id)
    \/ \E i \in 1..Len(all_item_objects_accumulator) :
           all_item_objects_accumulator[i] = Get(DataBody(institution_id), "item")

Processed(institution_id) ==
    \E i \in 1..Len(events) :
        /\ events[i].institution = institution_id
        /\ events[i].endpoint = "create_public_token"

LoopEntered == script \in LoopScripts /\ ConfigExit(script, config) = NotExited

\* C16: in the institution loop of every script a failed token or data call
\* of one institution is caught: it ends no run with an exception, the
\* institution contributes nothing to the accumulators, and the run goes on
\* to every later institution of the seed list.
C16_FailureSkipsInstitution ==
    LoopEntered =>
        /\ \A i \in 1..Len(events) :
               CallFailed(events[i]) =>
                   /\ ~Contributed(events[i].institution)
                   /\ i = Len(events) => uncaught = ""
        /\ (pc = "exited" /\ uncaught = "") =>
               \A i \in 1..Len(config.seed) : Processed(config.seed[i])

\* a call of the log was answered with a body that is not JSON
BodyNotJson(e) ==
    IF e.endpoint = "wait" THEN FALSE
    ELSE IF ~IsResponse(e.outcome) THEN FALSE
    ELSE e.outcome.body = NotJson

\* the step that follows a token call when it gave a token
StepAfter(endpoint) ==
    IF endpoint = "create_public_token" THEN "exchange" ELSE "fetch"

\* C17: in each of the five scripts a response whose body is not JSON gives
\* no data for its call (no token, nothing accumulated) and does not end the
\* run: the error is logged and the script goes on.
C17_NotJsonIsFailedCall ==
    \A i \in 1..Len(events) :
        BodyNotJson(events[i]) =>
            /\ i = Len(events) => uncaught = ""
            /\ IF events[i].endpoint = "fetch_data"
               THEN ~Contributed(events[i].institution)
               ELSE i = Len(events) => pc # StepAfter(events[i].endpoint)

ConfigurationMissing ==
    ~config.cfgs \/ ~config.CLIENT_ID \/ ~config.SECRET \/ ~config.DATA_DIR

NothingAccumulated ==
    /\ all_responses_data_list = <<>>
    /\ all_accounts_accumulator = <<>>
    /\ all_transactions_accumulator = <<>>

\* C18: a script that has exited has a non-zero status when configuration or
\* credentials were missing and, for the scripts with an institution loop,
\* when the seed list was empty; it has status zero when the run went through
\* the whole seed list and accumulated nothing.
C18_ExitStatus ==
    pc = "exited" =>
        /\ ConfigurationMissing => exit_status # 0
        /\ (script \in LoopScripts /\ config.seed = <<>>) => exit_status # 0
        /\ ( /\ ~ConfigurationMissing
             /\ config.seed # <<>>
             /\ uncaught = ""
             /\ NothingAccumulated ) => exit_status = 0

\* a call of the log was answered with a 2xx status and the JSON object the
\* endpoint is asked for
Is2xxWithJson(e) ==
    IF e.endpoint = "wait" THEN FALSE
    ELSE IF ~IsResponse(e.outcome) THEN FALSE
    ELSE /\ e.outcome.status_code >= 200
         /\ e.outcome.status_code < 300
         /\ e.outcome.body = GoodBody(e.endpoint, e.institution)

\* a call of the log ended in a transport failure or a status outside 2xx
IsOtherStatusOrFailure(e) ==
    IF e.endpoint = "wait" THEN FALSE
    ELSE IF ~IsResponse(e.outcome) THEN TRUE
    ELSE e.outcome.status_code < 200 \/ e.outcome.status_code >= 300

\* the script used what the i-th call of the log returned: the token step
\* went on to the next step, the data step accumulated the body
UsedAsData(i) ==
    IF events[i].endpoint = "fetch_data"
    THEN Contributed(events[i].institution)
    ELSE i = Len(events) => pc = StepAfter(events[i].endpoint)

TreatedAsNoData(i) ==
    IF events[i].endpoint = "fetch_data"
    THEN ~Contributed(events[i].institution)
    ELSE i = Len(events) => pc # StepAfter(events[i].endpoint)

\* C19: every call answered with a 2xx status and a JSON body is used as data
\* by the script, and for every call that ended in another status or in a
\* transport failure fetch_response returns None and the script takes no
\* data from it.
C19_Only2xxJsonIsData ==
    \A i \in 1..Len(events) :
        /\ Is2xxWithJson(events[i]) => UsedAsData(i)
        /\ IsOtherStatusOrFailure(events[i]) =>
               /\ fetch_response(events[i].outcome) = JNull
               /\ TreatedAsNoData(i)

\* C20: within one run no endpoint is called twice for the same institution,
\* whether its first call failed or not; there is one wait per institution
\* at most.
C20_NoRetry ==
    \A i, j \in 1..Len(events) :
        ( /\ events[i].institution = events[j].institution
          /\ events[i].endpoint = events[j].endpoint ) => i = j

\* a run over two institutions has ended in which the token call of the first
\* timed out, the data call of the second got an HTTP error, and each was
\* issued once
C20_Witness ==
    /\ pc = "exited"
    /\ script = "get_identity"
    /\ Len(config.seed) = 2
    /\ Len(events) = 5
    /\ events[1] = [institution |-> config.seed[1],
                    endpoint |-> "create_public_token", outcome |-> Timeout]
    /\ events[5] = [institution |-> config.seed[2], endpoint |-> "fetch_data",
                    outcome |-> Response(404, ErrorBody)]
    /\ exit_status = 0

\* the i-th entry of the log is a call of the endpoint for the institution
\* that was answered with status 200 and the token asked for
GaveToken(i, endpoint, institution_id) ==
    /\ i >= 1
    /\ events[i].institution = institution_id
    /\ events[i].endpoint = endpoint
    /\ events[i].outcome = Response(200, TokenBody(endpoint))

OnlyTagged(x, a, institution_id) ==
    /\ IsDict(x)
    /\ Keys(x) = Keys(a) \cup {"institution_id_source"}
    /\ SourceOf(x) = JStr(institution_id)
    /\ \A k \in Keys(a) \ {"institution_id_source"} : Get(x, k) = Get(a, k)

\* x is an element of the list `key` of a body the data endpoint answered a
\* call for some institution with, tagged with that institution
FetchedAndTagged(x, key) ==
    \E i \in 1..Len(events) :
        /\ events[i].endpoint = "fetch_data"
        /\ IsResponse(events[i].outcome)
        /\ events[i].outcome.body # NotJson
        /\ IsDict(events[i].outcome.body)
        /\ LET list == GetOr(events[i].outcome.body, key, EmptyList)
           IN  \E j \in 1..Len(list.v) :
                   OnlyTagged(x, list.v[j], events[i].institution)

\* C23: in the transaction scripts every accumulated account and transaction
\* is an object of a fetched response with institution_id_source set to the
\* institution the response was fetched for, and is otherwise unchanged.
C23_TaggedWithSource ==
    script \in {"get_transactions", "get_transactions_flattened"} =>
        /\ \A n \in 1..Len(all_accounts_accumulator) :
               FetchedAndTagged(all_accounts_accumulator[n], "accounts")
        /\ \A n \in 1..Len(all_transactions_accumulator) :
               FetchedAndTagged(all_transactions_accumulator[n], "transactions")

\* two institutions have each given an account and a transaction
C23_Witness ==
    /\ script = "get_transactions"
    /\ pc = "exited"
    /\ Len(all_accounts_accumulator) = 2
    /\ Len(all_transactions_accumulator) = 2
    /\ SourceOf(all_accounts_accumulator[1]) = JStr(config.seed[1])
    /\ SourceOf(all_transactions_accumulator[2]) = JStr(config.seed[2])

---------------------------------------------------------------------------
(* Properties of the records of a consolidated run *)

\* C26: in a run of get_transactions_flattened over several institutions,
\* every record with acc_ fields has the fields of an account fetched from
\* the institution of its transaction: acc_institution_id_source is the
\* record's institution_id_source.
C26_AccountOfSameInstitution ==
    \A i \in 1..Len(flat_list) :
        HasKey(flat_list[i], "acc_account_id") =>
            Get(flat_list[i], "acc_institution_id_source")
                = Get(flat_list[i], "institution_id_source")

\* the item of the body the data endpoint answered for the institution with
ItemFetchedFor(institution_id) ==
    LET i == CHOOSE i \in 1..Len(events) :
                 /\ events[i].endpoint = "fetch_data"
                 /\ JStr(events[i].institution) = institution_id
    IN  IF IsResponse(events[i].outcome) /\ events[i].outcome.body # NotJson
        THEN GetOr(events[i].outcome.body, "item", EmptyDict)
        ELSE EmptyDict

\* C27: in a run of get_transactions_flattened over several institutions,
\* item_id, item_institution_id and item_webhook of every record are those
\* of the item returned by the fetch for the institution of the record's
\* transaction.
C27_ItemOfSameInstitution ==
    \A i \in 1..Len(flat_list) :
        LET row == flat_list[i]
            item == ItemFetchedFor(SourceOf(transactions_list[i]))
        IN  /\ Get(row, "item_id") = Get(item, "item_id")
            /\ Get(row, "item_institution_id") = Get(item, "institution_id")
            /\ Get(row, "item_webhook") = Get(item, "webhook")

====
